---------------------------- MODULE Spec2Model ----------------------------
(***************************************************************************)
(* The DASH measurement server of neubot/dash, src/server/server.go: the   *)
(* session table (createSession, getSessionState, updateSession,           *)
(* popSession, CountSessions, reapStaleSessions), the three HTTP handlers  *)
(* (negotiate, download, collect) run by concurrent handler goroutines,    *)
(* and the reaper goroutine (StartReaper, reaperLoop, JoinReaper).         *)
(*                                                                         *)
(* Granularity: every critical section of h.mtx is one atomic step.  The   *)
(* code of a handler that touches nothing shared (parsing, genbody, JSON,  *)
(* the write of the handler's own response) is part of the step of the     *)
(* critical section that precedes it, except in negotiate, where the       *)
(* response is written BEFORE the session is created: there the write and  *)
(* the createSession are two steps.  time.Now() is read in the step of the *)
(* critical section that uses it.  Time is counted in whole seconds.       *)
(***************************************************************************)
EXTENDS Integers, Sequences, FiniteSets, Bags, TLC

(***************************************************************************)
(* Bounds of the model.                                                    *)
(***************************************************************************)
\* Number of UUIDs the random source hands out (never twice the same one).
NumTokens == 2
\* Number of HTTP handler goroutines that can run at the same time.
NumHandlers == 2
\* Handler.MaxIterations: an exported field that NewHandler sets to 17 and
\* that the tests lower; the model runs the handler with this smaller cap.
MaxIterations == 2
\* The clock stops at MaxTime seconds (the horizon of the model).
MaxTime == 75
\* Client.numIterations: a field that New sets to 15; the model runs the
\* client loop with this smaller number of iterations.
numIterations == 3
\* Number of clients that run against the server at the same time.
NumClients == 2

(***************************************************************************)
(* Program constants.                                                      *)
(***************************************************************************)
\* const toomuch = 60 * time.Second
toomuch == 60
\* const reapInterval = 14 * time.Second
reapInterval == 14
CurrentServerSchemaVersion == 4
\* const initialBitrate = 3000 (client)
initialBitrate == 3000
\* What NewHandler sets Handler.MaxIterations to, and New sets
\* Client.numIterations to.
DefaultMaxIterations == 17
DefaultNumIterations == 15
\* MinSize = 100 * 1000 / 8 * 2 ; MaxSize = 20000 * 1000 / 8 * 2
MinSize == ((100 * 1000) \div 8) * 2
MaxSize == ((20000 * 1000) \div 8) * 2

sessionMissing == "sessionMissing"
sessionActive == "sessionActive"
sessionExpired == "sessionExpired"

\* The UUIDs the server can generate, and what an Authorization header can
\* carry: one of them (issued already or not), or 0, a string that is never
\* a UUID of the server (an empty or forged header).
Tokens == 1..NumTokens
ReqTokens == 0..NumTokens

\* By how much the clock advances in one step, where the timing of the
\* reaper is studied: the sweep interval, or what is left of the staleness
\* threshold after it.
TickSteps == {reapInterval, toomuch - reapInterval}
\* By how much it advances where the handlers are studied: to the horizon,
\* which is later than the staleness threshold.
LongTickSteps == {MaxTime}

Min(a, b) == IF a <= b THEN a ELSE b

VARIABLES
    now,        \* time.Now(), in seconds
    sessions,   \* h.sessions: a function from the registered UUIDs to *sessionInfo
    nextUUID,   \* the next UUID that UUIDNewRandom returns
    inflight,   \* the handler goroutines in flight (a bag): where each one is
    rpc,        \* the reaper goroutine: where it is in reaperLoop
    wakeAt,     \* the time at which the reaper's time.Sleep returns
    ctxDone,    \* the context passed to StartReaper is cancelled
    stopClosed, \* h.stop is closed
    jpc,        \* the goroutine that calls JoinReaper
    recorded,   \* history: per UUID, the measurements that downloads recorded
                \* on its session, kept until the session is collected or reaped
    fate,       \* history: per UUID, what happened to its session
    last,       \* history: the step just taken and the response it wrote
    mtx,        \* h.mtx: the goroutine that holds it, or 0
    calls,      \* per goroutine, where it is in an operation of the table
                \* when the statements of the operations are single steps
    cpc,        \* the client: where its loop goroutine is
    current,    \* the client loop's current model.ClientResults
    clientResults, \* c.clientResults
    err,        \* c.err
    ch,         \* the results that the consumer has received from the channel
    chClosed,   \* how many times the channel was closed
    requests,   \* history: the requests that the client loop has issued
    ctx,        \* the context of the client: ctx.Err(), "nil" while it is live
    startRet,   \* what StartDownload has returned to realmain
    consumer,   \* realmain, the consumer of the channel: where it is
    observed,   \* history: what the calls of Client.Error by realmain returned
    outcomes,   \* history: the error each phase of the loop returned
    submitted,  \* history: the client results that the collect request carried
    runs        \* per client that runs against the server: where its loop is,
                \* its token, its iteration, and what the server answered

vars == <<now, sessions, nextUUID, inflight, rpc, wakeAt, ctxDone, stopClosed, jpc,
          recorded, fate, last, mtx, calls,
          cpc, current, clientResults, err, ch, chClosed, requests,
          ctx, startRet, consumer, observed, outcomes, submitted, runs>>

\* The variables of the client.
clientVars == <<cpc, current, clientResults, err, ch, chClosed, requests,
                ctx, startRet, consumer, observed, outcomes, submitted>>

\* The variables of the model in which the statements of the operations of
\* the table are single steps.
lockVars == <<mtx, calls>>

\* The variable of the clients that run against the server.
runVars == <<runs>>

(***************************************************************************)
(* The session table.  Each operation is the body of one critical section  *)
(* of h.mtx: a function of the table S it finds (and of the time t it      *)
(* reads) that yields the table it leaves, or the value it returns.        *)
(***************************************************************************)
\* A nil *sessionInfo.
nil == [isnil |-> TRUE]

\* &sessionInfo{stamp: now, serverSchema: {version, now.Unix()}}
NewSession(t) ==
    [iteration |-> 0,
     stamp |-> t,
     serverSchema |-> [Client |-> <<>>,
                       ServerSchemaVersion |-> CurrentServerSchemaVersion,
                       ServerTimestamp |-> t,
                       Server |-> <<>>]]

\* h.sessions[UUID] = session
createSession(S, UUID, t) ==
    [u \in (DOMAIN S) \cup {UUID} |-> IF u = UUID THEN NewSession(t) ELSE S[u]]

\* getSessionState, for a handler whose MaxIterations is cap.
getSessionStateOf(S, UUID, cap) ==
    IF UUID \notin DOMAIN S THEN sessionMissing
    ELSE IF S[UUID].iteration >= cap THEN sessionExpired
    ELSE sessionActive

\* Mutant: a session expires one iteration too late.
getSessionStateLate(S, UUID) ==
    IF UUID \notin DOMAIN S THEN sessionMissing
    ELSE IF S[UUID].iteration > MaxIterations THEN sessionExpired
    ELSE sessionActive

getSessionState(S, UUID) == getSessionStateOf(S, UUID, MaxIterations)

\* Mutant: the iterations are numbered from 1.
NewServerResultsFromOne(session, t) ==
    [Iteration |-> session.iteration + 1,
     Ticks |-> t - session.stamp,
     Timestamp |-> t]

\* The ServerResults that updateSession appends.
NewServerResults(session, t) ==
    [Iteration |-> session.iteration,
     Ticks |-> t - session.stamp,
     Timestamp |-> t]

\* Mutant: the measurement is appended, the iteration is not incremented.
updateSessionNoIncrement(S, UUID, t) ==
    IF UUID \in DOMAIN S
    THEN [S EXCEPT ![UUID] =
            [@ EXCEPT !.serverSchema.Server = Append(@, NewServerResults(S[UUID], t))]]
    ELSE S

\* Mutant: the iteration is incremented twice.
updateSessionTwice(S, UUID, t) ==
    IF UUID \in DOMAIN S
    THEN [S EXCEPT ![UUID] =
            [@ EXCEPT !.serverSchema.Server = Append(@, NewServerResults(S[UUID], t)),
                      !.iteration = @ + 2]]
    ELSE S

\* Mutant: the new measurement is put in front of the others.
updateSessionPrepend(S, UUID, t) ==
    IF UUID \in DOMAIN S
    THEN [S EXCEPT ![UUID] =
            [@ EXCEPT !.serverSchema.Server = <<NewServerResults(S[UUID], t)>> \o @,
                      !.iteration = @ + 1]]
    ELSE S

\* Mutant: the iteration counter is one counter shared by all the sessions.
updateSessionShared(S, UUID, t) ==
    IF UUID \in DOMAIN S
    THEN [u \in DOMAIN S |->
            IF u = UUID
            THEN [S[u] EXCEPT !.serverSchema.Server = Append(@, NewServerResults(S[UUID], t)),
                              !.iteration = @ + 1]
            ELSE [S[u] EXCEPT !.iteration = @ + 1]]
    ELSE S

\* Mutant: recording a download renews the stamp of the session.
updateSessionTouching(S, UUID, t) ==
    IF UUID \in DOMAIN S
    THEN [S EXCEPT ![UUID] =
            [@ EXCEPT !.serverSchema.Server = Append(@, NewServerResults(S[UUID], t)),
                      !.iteration = @ + 1,
                      !.stamp = t]]
    ELSE S

updateSession(S, UUID, t) ==
    IF UUID \in DOMAIN S
    THEN [S EXCEPT ![UUID] =
            [@ EXCEPT !.serverSchema.Server = Append(@, NewServerResults(S[UUID], t)),
                      !.iteration = @ + 1]]
    ELSE S

\* Mutant: the table holds sessions, not pointers to them, and the lookup
\* of a UUID that is not registered yields the zero session.
popSessionResultZero(S, UUID) ==
    IF UUID \in DOMAIN S THEN S[UUID] ELSE NewSession(0)

\* popSession: the session it returns (nil when there is none) ...
popSessionResult(S, UUID) ==
    IF UUID \in DOMAIN S THEN S[UUID] ELSE nil

\* Mutant: the session is returned and left in the table.
popSessionTableKeep(S, UUID) == S

\* ... and the table it leaves: delete(h.sessions, UUID).
popSessionTable(S, UUID) ==
    [u \in (DOMAIN S) \ {UUID} |-> S[u]]

CountSessions(S) == Cardinality(DOMAIN S)

\* Mutant: a session is stale as soon as it is as old as the threshold.
staleAtThreshold(S, t) == {u \in DOMAIN S : t - S[u].stamp >= toomuch}

\* The UUIDs that a sweep at time t finds stale.
stale(S, t) == {u \in DOMAIN S : t - S[u].stamp > toomuch}

reapStaleSessions(S, t) ==
    [u \in (DOMAIN S) \ stale(S, t) |-> S[u]]

(***************************************************************************)
(* What the handlers compute outside the table.                            *)
(***************************************************************************)
DigitChars == <<"0", "1", "2", "3", "4", "5", "6", "7", "8", "9">>
IsDigit(c) == \E i \in 1..10 : DigitChars[i] = c
DigitVal(c) == (CHOOSE i \in 1..10 : DigitChars[i] = c) - 1

\* Go's int has 64 bits where the server is built, the integers of the
\* model checker 32: a value of IntCeiling or more is kept as IntCeiling.
\* The only use of the value, genbody, compares it with MinSize and
\* MaxSize, which are smaller, and cannot tell the difference.
IntCeiling == 1000 * 1000 * 1000

RECURSIVE DigitsValue(_)
DigitsValue(ds) ==
    IF ds = <<>> THEN 0
    ELSE LET high == DigitsValue(SubSeq(ds, 1, Len(ds) - 1))
         IN  IF high >= IntCeiling \div 10 THEN IntCeiling
             ELSE 10 * high + DigitVal(ds[Len(ds)])

\* strconv.Atoi on a string given as the sequence of its characters: an
\* optional sign, then one digit or more; anything else is an error.
Atoi(str) ==
    LET signed == str # <<>> /\ str[1] \in {"+", "-"}
        ds == IF signed THEN Tail(str) ELSE str
    IN  IF ds = <<>> \/ \E i \in 1..Len(ds) : ~IsDigit(ds[i])
        THEN [err |-> TRUE, n |-> 0]
        ELSE [err |-> FALSE,
              n |-> IF signed /\ str[1] = "-" THEN 0 - DigitsValue(ds) ELSE DigitsValue(ds)]

\* minSizeString = fmt.Sprintf("%d", MinSize)
minSizeString == <<"2", "5", "0", "0", "0">>

\* download: what is left of r.URL.Path once "/dash/download" is removed
\* from it, without its leading "/", and the minimum size if that is empty.
siz(suffix) ==
    LET s1 == IF suffix # <<>> /\ suffix[1] = "/" THEN Tail(suffix) ELSE suffix
    IN  IF s1 = <<>> THEN minSizeString ELSE s1

\* Mutant: genbody does not cap the count.
genbodyUncapped(count) ==
    IF count < MinSize THEN MinSize ELSE count

\* genbody: the count it leaves in *count, which is also len(data).
genbody(count) ==
    LET c1 == IF count < MinSize THEN MinSize ELSE count
    IN  IF c1 > MaxSize THEN MaxSize ELSE c1

\* net.SplitHostPort on r.RemoteAddr, given as <<host, port>>; an address
\* without a port (here: of another length) is an error.
SplitHostPort(addr) ==
    IF Len(addr) = 2 THEN [err |-> FALSE, host |-> addr[1]]
    ELSE [err |-> TRUE, host |-> ""]

\* Mutant: negotiate answers that the client is queued.
NegotiateResponseQueued(UUID, address) ==
    [Authorization |-> UUID, QueuePos |-> 1, RealAddress |-> address, Unchoked |-> 0]

\* The response body of negotiate.
NegotiateResponse(UUID, address) ==
    [Authorization |-> UUID, QueuePos |-> 0, RealAddress |-> address, Unchoked |-> 1]

(***************************************************************************)
(* The inputs of the requests.                                             *)
(***************************************************************************)
\* r.RemoteAddr of a negotiate request.
RemoteAddrs == {<<"127.0.0.1", "8080">>, <<"10.0.0.1", "80">>, <<>>}
\* The part of the URL path of a download request after "/dash/download".
PathSuffixes ==
    {<<>>, <<"/", "-", "1">>, <<"/", "x">>, <<"/", "3", "0", "0", "0", "0">>,
     <<"/", "1", "1", "2", "5", "8", "9", "9", "9", "0", "6", "8", "4", "2", "6", "2", "4">>}
\* The body of a collect request: a JSON array of client results (here of
\* their iteration numbers), or text that json.Unmarshal rejects.
Bodies == {[json |-> TRUE, value |-> <<>>], [json |-> TRUE, value |-> <<0>>],
           [json |-> FALSE, value |-> <<>>]}
\* Which of the calls of a handler into its environment fails, if any.
NegotiateFailures == {"none", "UUIDNewRandom", "JSONMarshal"}
CollectFailures == {"none", "ReadAll", "JSONMarshal", "savedata"}

(***************************************************************************)
(* The state after NewHandler.                                             *)
(***************************************************************************)
\* A handler goroutine that has passed its first critical section: where
\* it is, and its local variables.
\* The goroutines that call the operations of the table when their statements
\* are single steps: the handler goroutines and, last, the reaper.
Goroutines == 1..(NumHandlers + 1)
ReaperGoroutine == NumHandlers + 1
\* A goroutine that is in no operation of the table.
Idle == [pc |-> "idle", UUID |-> 0, t |-> 0, ret |-> nil]

Handler(pc, UUID, session, count, address) ==
    [pc |-> pc, token |-> UUID, session |-> session, count |-> count,
     address |-> address]

NoFate == [popped |-> 0, ok |-> 0, saved |-> 0, reaped |-> FALSE]

Event(op, token, status, body) ==
    [op |-> op, token |-> token, status |-> status, body |-> body]

\* New: a client whose StartDownload has not started the loop yet.
InitClient ==
    /\ cpc = "new"
    /\ current = [Iteration |-> 0, ElapsedTarget |-> 0, Rate |-> 0, Received |-> 0,
                  Elapsed |-> 0]
    /\ clientResults = <<>>
    /\ err = "nil"
    /\ ch = <<>>
    /\ chClosed = 0
    /\ requests = <<>>
    /\ ctx = "nil"
    /\ startRet = [returned |-> FALSE, ch |-> FALSE, err |-> "nil"]
    /\ consumer = "main"
    /\ observed = <<>>
    /\ outcomes = <<>>
    /\ submitted = <<>>
    /\ runs = [c \in 1..NumClients |->
                [pc |-> "negotiate", Authorization |-> 0, Iteration |-> 0,
                 status |-> 0, err |-> "nil", serverResults |-> <<>>]]

Init ==
    /\ now = 0
    /\ sessions = <<>>
    /\ nextUUID = 1
    /\ inflight = EmptyBag
    /\ rpc = "notstarted"
    /\ wakeAt = 0
    /\ ctxDone = FALSE
    /\ stopClosed = FALSE
    /\ jpc = "none"
    /\ recorded = [u \in ReqTokens |-> <<>>]
    /\ fate = [u \in ReqTokens |-> NoFate]
    /\ last = Event("NewHandler", 0, 0, nil)
    /\ mtx = 0
    /\ calls = [g \in Goroutines |-> Idle]
    /\ InitClient

reaperVars == <<rpc, wakeAt, ctxDone, stopClosed, jpc>>

\* The runtime serves each request on a goroutine of its own; the model
\* runs at most NumHandlers of them at a time.
CanServe == BagCardinality(inflight) < NumHandlers
Running == BagToSet(inflight)
Started(r) == inflight (+) SetToBag({r})
Moved(r, q) == (inflight (-) SetToBag({r})) (+) SetToBag({q})
Returned(r) == inflight (-) SetToBag({r})

(***************************************************************************)
(* The clock.                                                              *)
(***************************************************************************)
Tick(d) ==
    /\ now < MaxTime
    /\ now' = Min(now + d, MaxTime)
    /\ last' = Event("Tick", 0, 0, nil)
    /\ UNCHANGED <<sessions, nextUUID, inflight, recorded, fate>>
    /\ UNCHANGED reaperVars
    /\ UNCHANGED lockVars
    /\ UNCHANGED clientVars
    /\ UNCHANGED runVars

(***************************************************************************)
(* negotiate, for a request from addr.                                     *)
(***************************************************************************)
\* Mutant: negotiate refuses a request when a session is registered already.
negotiateRefusing(addr, fail) ==
    /\ CanServe
    /\ UNCHANGED <<now, sessions, recorded, fate>>
    /\ UNCHANGED reaperVars
    /\ IF SplitHostPort(addr).err \/ CountSessions(sessions) > 0
       THEN /\ last' = Event("negotiate", 0, 500, nil)
            /\ UNCHANGED <<inflight, nextUUID>>
       ELSE /\ nextUUID <= NumTokens
            /\ IF fail = "UUIDNewRandom"
               THEN /\ last' = Event("negotiate", 0, 500, nil)
                    /\ UNCHANGED <<inflight, nextUUID>>
               ELSE /\ nextUUID' = nextUUID + 1
                    /\ IF fail = "JSONMarshal"
                       THEN /\ last' = Event("negotiate", 0, 500, nil)
                            /\ UNCHANGED inflight
                       ELSE /\ inflight' = Started(Handler("negotiateWrite", nextUUID,
                                                nil, 0, SplitHostPort(addr).host))
                            /\ last' = Event("negotiate", nextUUID, 0, nil)
    /\ UNCHANGED lockVars
    /\ UNCHANGED clientVars
    /\ UNCHANGED runVars

\* Mutant: negotiate registers the session before it serializes the response.
negotiateRegisteringFirst(addr, fail) ==
    /\ CanServe
    /\ UNCHANGED <<now, recorded, fate>>
    /\ UNCHANGED reaperVars
    /\ IF SplitHostPort(addr).err
       THEN /\ last' = Event("negotiate", 0, 500, nil)
            /\ UNCHANGED <<inflight, nextUUID, sessions>>
       ELSE /\ nextUUID <= NumTokens
            /\ IF fail = "UUIDNewRandom"
               THEN /\ last' = Event("negotiate", 0, 500, nil)
                    /\ UNCHANGED <<inflight, nextUUID, sessions>>
               ELSE /\ nextUUID' = nextUUID + 1
                    /\ IF fail = "JSONMarshal"
                       THEN /\ last' = Event("negotiate", 0, 500, nil)
                            /\ sessions' = createSession(sessions, nextUUID, now)
                            /\ UNCHANGED inflight
                       ELSE /\ inflight' = Started(Handler("negotiateWrite", nextUUID,
                                                nil, 0, SplitHostPort(addr).host))
                            /\ last' = Event("negotiate", nextUUID, 0, nil)
                            /\ UNCHANGED sessions
    /\ UNCHANGED lockVars
    /\ UNCHANGED clientVars
    /\ UNCHANGED runVars

\* Up to the point where the response is ready to be written.
negotiate(addr, fail) ==
    /\ CanServe
    /\ UNCHANGED <<now, sessions, recorded, fate>>
    /\ UNCHANGED reaperVars
    /\ IF SplitHostPort(addr).err
       THEN /\ last' = Event("negotiate", 0, 500, nil)
            /\ UNCHANGED <<inflight, nextUUID>>
       ELSE /\ nextUUID <= NumTokens
            /\ IF fail = "UUIDNewRandom"
               THEN /\ last' = Event("negotiate", 0, 500, nil)
                    /\ UNCHANGED <<inflight, nextUUID>>
               ELSE /\ nextUUID' = nextUUID + 1
                    /\ IF fail = "JSONMarshal"
                       THEN /\ last' = Event("negotiate", 0, 500, nil)
                            /\ UNCHANGED inflight
                       ELSE /\ inflight' = Started(Handler("negotiateWrite", nextUUID,
                                                nil, 0, SplitHostPort(addr).host))
                            /\ last' = Event("negotiate", nextUUID, 0, nil)
    /\ UNCHANGED lockVars
    /\ UNCHANGED clientVars
    /\ UNCHANGED runVars

\* w.Write(data): the client gets the response, or the write fails.
negotiateWrite(r, ok) ==
    /\ r \in Running
    /\ r.pc = "negotiateWrite"
    /\ UNCHANGED <<now, sessions, nextUUID, recorded, fate>>
    /\ UNCHANGED reaperVars
    /\ IF ok
       THEN /\ inflight' = Moved(r, [r EXCEPT !.pc = "negotiateCreate"])
            /\ last' = Event("negotiate", r.token, 200,
                             NegotiateResponse(r.token, r.address))
       ELSE /\ inflight' = Returned(r)
            /\ last' = Event("negotiate", r.token, 0, nil)
    /\ UNCHANGED lockVars
    /\ UNCHANGED clientVars
    /\ UNCHANGED runVars

\* if err == nil { h.createSession(UUID.String()) }
negotiateCreate(r) ==
    /\ r \in Running
    /\ r.pc = "negotiateCreate"
    /\ sessions' = createSession(sessions, r.token, now)
    /\ inflight' = Returned(r)
    /\ last' = Event("createSession", r.token, 0, nil)
    /\ UNCHANGED <<now, nextUUID, recorded, fate>>
    /\ UNCHANGED reaperVars
    /\ UNCHANGED lockVars
    /\ UNCHANGED clientVars
    /\ UNCHANGED runVars

\* What a download measures when it records its iteration: nothing if its
\* session is not registered (any more).
Measured(S, UUID, t) ==
    IF UUID \in DOMAIN S THEN <<NewServerResults(S[UUID], t)>> ELSE <<>>

\* Mutant: download parses the size before it looks the session up.
downloadParsingFirst(UUID, suffix, randOK) ==
    /\ CanServe
    /\ UNCHANGED <<now, sessions, nextUUID, recorded, fate>>
    /\ UNCHANGED reaperVars
    /\ LET state == getSessionState(sessions, UUID)
           parsed == Atoi(siz(suffix))
       IN  IF parsed.err
           THEN /\ last' = Event("download", UUID, 400, nil)
                /\ UNCHANGED inflight
           ELSE IF state = sessionMissing
           THEN /\ last' = Event("download", UUID, 400, nil)
                /\ UNCHANGED inflight
           ELSE IF state = sessionExpired
           THEN /\ last' = Event("download", UUID, 429, nil)
                /\ UNCHANGED inflight
           ELSE IF ~randOK
           THEN /\ last' = Event("download", UUID, 500, nil)
                /\ UNCHANGED inflight
           ELSE /\ inflight' = Started(Handler("downloadUpdate", UUID, nil,
                                               genbody(parsed.n), ""))
                /\ last' = Event("download", UUID, 0, nil)
    /\ UNCHANGED lockVars
    /\ UNCHANGED clientVars
    /\ UNCHANGED runVars

\* Mutant: download records its iteration before it generates the body.
downloadRecordingFirst(UUID, suffix, randOK) ==
    /\ CanServe
    /\ UNCHANGED <<now, nextUUID, fate>>
    /\ UNCHANGED reaperVars
    /\ LET state == getSessionState(sessions, UUID)
           parsed == Atoi(siz(suffix))
       IN  IF state = sessionMissing
           THEN /\ last' = Event("download", UUID, 400, nil)
                /\ UNCHANGED <<inflight, sessions, recorded>>
           ELSE IF state = sessionExpired
           THEN /\ last' = Event("download", UUID, 429, nil)
                /\ UNCHANGED <<inflight, sessions, recorded>>
           ELSE IF parsed.err
           THEN /\ last' = Event("download", UUID, 400, nil)
                /\ UNCHANGED <<inflight, sessions, recorded>>
           ELSE IF ~randOK
           THEN /\ last' = Event("download", UUID, 500, nil)
                /\ sessions' = updateSession(sessions, UUID, now)
                /\ recorded' = [recorded EXCEPT ![UUID] = @ \o Measured(sessions, UUID, now)]
                /\ UNCHANGED inflight
           ELSE /\ inflight' = Started(Handler("downloadUpdate", UUID, nil,
                                               genbody(parsed.n), ""))
                /\ last' = Event("download", UUID, 0, nil)
                /\ UNCHANGED <<sessions, recorded>>
    /\ UNCHANGED lockVars
    /\ UNCHANGED clientVars
    /\ UNCHANGED runVars

(***************************************************************************)
(* download, for a request that carries the Authorization header UUID and  *)
(* the path "/dash/download" \o suffix.                                    *)
(***************************************************************************)
\* From getSessionState to genbody.
download(UUID, suffix, randOK) ==
    /\ CanServe
    /\ UNCHANGED <<now, sessions, nextUUID, recorded, fate>>
    /\ UNCHANGED reaperVars
    /\ LET state == getSessionState(sessions, UUID)
           parsed == Atoi(siz(suffix))
       IN  IF state = sessionMissing
           THEN /\ last' = Event("download", UUID, 400, nil)
                /\ UNCHANGED inflight
           ELSE IF state = sessionExpired
           THEN /\ last' = Event("download", UUID, 429, nil)
                /\ UNCHANGED inflight
           ELSE IF parsed.err
           THEN /\ last' = Event("download", UUID, 400, nil)
                /\ UNCHANGED inflight
           ELSE IF ~randOK
           THEN /\ last' = Event("download", UUID, 500, nil)
                /\ UNCHANGED inflight
           ELSE /\ inflight' = Started(Handler("downloadUpdate", UUID, nil,
                                               genbody(parsed.n), ""))
                /\ last' = Event("download", UUID, 0, nil)
    /\ UNCHANGED lockVars
    /\ UNCHANGED clientVars
    /\ UNCHANGED runVars

\* h.updateSession(sessionID, len(data)), then the response.
downloadUpdate(r) ==
    /\ r \in Running
    /\ r.pc = "downloadUpdate"
    /\ sessions' = updateSession(sessions, r.token, now)
    /\ recorded' = [recorded EXCEPT ![r.token] = @ \o Measured(sessions, r.token, now)]
    /\ inflight' = Returned(r)
    /\ last' = Event("download", r.token, 200, r.count)
    /\ UNCHANGED <<now, nextUUID, fate>>
    /\ UNCHANGED reaperVars
    /\ UNCHANGED lockVars
    /\ UNCHANGED clientVars
    /\ UNCHANGED runVars

(***************************************************************************)
(* collect, for a request that carries the Authorization header UUID.      *)
(***************************************************************************)
\* session := h.popSession(...)
collect(UUID) ==
    /\ CanServe
    /\ UNCHANGED <<now, nextUUID, recorded>>
    /\ UNCHANGED reaperVars
    /\ LET session == popSessionResult(sessions, UUID)
       IN  /\ sessions' = popSessionTable(sessions, UUID)
           /\ IF session = nil
              THEN /\ last' = Event("collect", UUID, 400, nil)
                   /\ UNCHANGED <<inflight, fate>>
              ELSE /\ inflight' = Started(Handler("collectBody", UUID, session, 0, ""))
                   /\ fate' = [fate EXCEPT ![UUID].popped = @ + 1]
                   /\ last' = Event("popSession", UUID, 0, nil)
    /\ UNCHANGED lockVars
    /\ UNCHANGED clientVars
    /\ UNCHANGED runVars

\* Mutant: collect refuses a session on which nothing was recorded.
collectBodyRefusingEmpty(r, body, fail) ==
    /\ r \in Running
    /\ r.pc = "collectBody"
    /\ UNCHANGED <<now, sessions, nextUUID>>
    /\ UNCHANGED reaperVars
    /\ inflight' = Returned(r)
    /\ recorded' = [recorded EXCEPT ![r.token] = <<>>]
    /\ IF fail = "ReadAll" \/ ~body.json \/ r.session.iteration = 0
       THEN /\ last' = Event("collect", r.token, 400, nil)
            /\ UNCHANGED fate
       ELSE IF fail \in {"JSONMarshal", "savedata"}
       THEN /\ last' = Event("collect", r.token, 500, nil)
            /\ UNCHANGED fate
       ELSE /\ fate' = [fate EXCEPT ![r.token].saved = @ + 1, ![r.token].ok = @ + 1]
            /\ last' = Event("collect", r.token, 200, r.session.serverSchema.Server)
    /\ UNCHANGED lockVars
    /\ UNCHANGED clientVars
    /\ UNCHANGED runVars

\* Mutant: a collect that fails puts the session back into the table.
collectBodyRestoring(r, body, fail) ==
    /\ r \in Running
    /\ r.pc = "collectBody"
    /\ UNCHANGED <<now, nextUUID>>
    /\ UNCHANGED reaperVars
    /\ inflight' = Returned(r)
    /\ IF fail = "ReadAll" \/ ~body.json
       THEN /\ last' = Event("collect", r.token, 400, nil)
            /\ sessions' = [u \in (DOMAIN sessions) \cup {r.token} |->
                               IF u = r.token THEN r.session ELSE sessions[u]]
            /\ UNCHANGED <<fate, recorded>>
       ELSE IF fail \in {"JSONMarshal", "savedata"}
       THEN /\ last' = Event("collect", r.token, 500, nil)
            /\ sessions' = [u \in (DOMAIN sessions) \cup {r.token} |->
                               IF u = r.token THEN r.session ELSE sessions[u]]
            /\ UNCHANGED <<fate, recorded>>
       ELSE /\ fate' = [fate EXCEPT ![r.token].saved = @ + 1, ![r.token].ok = @ + 1]
            /\ recorded' = [recorded EXCEPT ![r.token] = <<>>]
            /\ last' = Event("collect", r.token, 200, r.session.serverSchema.Server)
            /\ UNCHANGED sessions
    /\ UNCHANGED lockVars
    /\ UNCHANGED clientVars
    /\ UNCHANGED runVars

\* From ioutil.ReadAll to the response, on the session that was popped.
collectBody(r, body, fail) ==
    /\ r \in Running
    /\ r.pc = "collectBody"
    /\ UNCHANGED <<now, sessions, nextUUID>>
    /\ UNCHANGED reaperVars
    /\ inflight' = Returned(r)
    /\ recorded' = [recorded EXCEPT ![r.token] = <<>>]
    /\ IF fail = "ReadAll" \/ ~body.json
       THEN /\ last' = Event("collect", r.token, 400, nil)
            /\ UNCHANGED fate
       ELSE IF fail \in {"JSONMarshal", "savedata"}
       THEN /\ last' = Event("collect", r.token, 500, nil)
            /\ UNCHANGED fate
       ELSE /\ fate' = [fate EXCEPT ![r.token].saved = @ + 1, ![r.token].ok = @ + 1]
            /\ last' = Event("collect", r.token, 200, r.session.serverSchema.Server)
    /\ UNCHANGED lockVars
    /\ UNCHANGED clientVars
    /\ UNCHANGED runVars

(***************************************************************************)
(* The reaper goroutine, the cancellation of its context, and JoinReaper.  *)
(***************************************************************************)
\* go h.reaperLoop(ctx)
StartReaper ==
    /\ rpc = "notstarted"
    /\ rpc' = "loop"
    /\ last' = Event("StartReaper", 0, 0, nil)
    /\ UNCHANGED <<now, sessions, nextUUID, inflight, wakeAt, ctxDone, stopClosed, jpc,
                   recorded, fate>>
    /\ UNCHANGED lockVars
    /\ UNCHANGED clientVars
    /\ UNCHANGED runVars

\* Mutant: the loop is left without closing h.stop.
reaperLoopNoClose ==
    /\ rpc = "loop"
    /\ IF ctxDone
       THEN /\ rpc' = "done"
            /\ UNCHANGED <<stopClosed, wakeAt>>
       ELSE /\ rpc' = "sleep"
            /\ wakeAt' = now + reapInterval
            /\ UNCHANGED stopClosed
    /\ last' = Event("reaperLoop", 0, 0, nil)
    /\ UNCHANGED <<now, sessions, nextUUID, inflight, ctxDone, jpc, recorded, fate>>
    /\ UNCHANGED lockVars
    /\ UNCHANGED clientVars
    /\ UNCHANGED runVars

\* Mutant: the loop tests the context after the sweep only (do ... while).
reaperLoopSleepFirst ==
    /\ rpc = "loop"
    /\ IF ctxDone /\ wakeAt > 0
       THEN /\ rpc' = "done"
            /\ stopClosed' = TRUE
            /\ UNCHANGED wakeAt
       ELSE /\ rpc' = "sleep"
            /\ wakeAt' = now + reapInterval
            /\ UNCHANGED stopClosed
    /\ last' = Event("reaperLoop", 0, 0, nil)
    /\ UNCHANGED <<now, sessions, nextUUID, inflight, ctxDone, jpc, recorded, fate>>
    /\ UNCHANGED lockVars
    /\ UNCHANGED clientVars
    /\ UNCHANGED runVars

\* for ctx.Err() == nil: enter time.Sleep(reapInterval), or leave the loop
\* and run the deferred close(h.stop).
reaperLoop ==
    /\ rpc = "loop"
    /\ IF ctxDone
       THEN /\ rpc' = "done"
            /\ stopClosed' = TRUE
            /\ UNCHANGED wakeAt
       ELSE /\ rpc' = "sleep"
            /\ wakeAt' = now + reapInterval
            /\ UNCHANGED stopClosed
    /\ last' = Event("reaperLoop", 0, 0, nil)
    /\ UNCHANGED <<now, sessions, nextUUID, inflight, ctxDone, jpc, recorded, fate>>
    /\ UNCHANGED lockVars
    /\ UNCHANGED clientVars
    /\ UNCHANGED runVars

\* Mutant: the reaper writes back the sessions that it deletes.
reaperSweepSaving ==
    /\ rpc = "sleep"
    /\ now >= wakeAt
    /\ sessions' = reapStaleSessions(sessions, now)
    /\ fate' = [u \in DOMAIN fate |->
                  IF u \in DOMAIN sessions /\ u \notin DOMAIN sessions'
                  THEN [fate[u] EXCEPT !.reaped = TRUE, !.saved = @ + 1] ELSE fate[u]]
    /\ recorded' = [u \in DOMAIN recorded |->
                      IF u \in DOMAIN sessions /\ u \notin DOMAIN sessions'
                      THEN <<>> ELSE recorded[u]]
    /\ rpc' = "loop"
    /\ last' = Event("reapStaleSessions", 0, 0,
                     [u \in stale(sessions, now) |-> sessions[u]])
    /\ UNCHANGED <<now, nextUUID, inflight, wakeAt, ctxDone, stopClosed, jpc>>
    /\ UNCHANGED lockVars
    /\ UNCHANGED clientVars
    /\ UNCHANGED runVars

\* time.Sleep has returned: h.reapStaleSessions().  The event of the step
\* keeps the sessions that the sweep deleted.
reaperSweep ==
    /\ rpc = "sleep"
    /\ now >= wakeAt
    /\ sessions' = reapStaleSessions(sessions, now)
    /\ fate' = [u \in DOMAIN fate |->
                  IF u \in DOMAIN sessions /\ u \notin DOMAIN sessions'
                  THEN [fate[u] EXCEPT !.reaped = TRUE] ELSE fate[u]]
    /\ recorded' = [u \in DOMAIN recorded |->
                      IF u \in DOMAIN sessions /\ u \notin DOMAIN sessions'
                      THEN <<>> ELSE recorded[u]]
    /\ rpc' = "loop"
    /\ last' = Event("reapStaleSessions", 0, 0,
                     [u \in stale(sessions, now) |-> sessions[u]])
    /\ UNCHANGED <<now, nextUUID, inflight, wakeAt, ctxDone, stopClosed, jpc>>
    /\ UNCHANGED lockVars
    /\ UNCHANGED clientVars
    /\ UNCHANGED runVars

\* The owner of the context cancels it.
Cancel ==
    /\ ~ctxDone
    /\ ctxDone' = TRUE
    /\ last' = Event("cancel", 0, 0, nil)
    /\ UNCHANGED <<now, sessions, nextUUID, inflight, rpc, wakeAt, stopClosed, jpc,
                   recorded, fate>>
    /\ UNCHANGED lockVars
    /\ UNCHANGED clientVars
    /\ UNCHANGED runVars

\* JoinReaper is called: <-h.stop ...
JoinReaper ==
    /\ jpc = "none"
    /\ jpc' = "waiting"
    /\ last' = Event("JoinReaper", 0, 0, nil)
    /\ UNCHANGED <<now, sessions, nextUUID, inflight, rpc, wakeAt, ctxDone, stopClosed,
                   recorded, fate>>
    /\ UNCHANGED lockVars
    /\ UNCHANGED clientVars
    /\ UNCHANGED runVars

\* Mutant: JoinReaper returns as soon as the context is cancelled.
JoinReaperReturnOnCancel ==
    /\ jpc = "waiting"
    /\ ctxDone
    /\ jpc' = "returned"
    /\ last' = Event("JoinReaperReturn", 0, 0, nil)
    /\ UNCHANGED <<now, sessions, nextUUID, inflight, rpc, wakeAt, ctxDone, stopClosed,
                   recorded, fate>>
    /\ UNCHANGED lockVars
    /\ UNCHANGED clientVars
    /\ UNCHANGED runVars

\* ... and returns, once h.stop is closed.
JoinReaperReturn ==
    /\ jpc = "waiting"
    /\ stopClosed
    /\ jpc' = "returned"
    /\ last' = Event("JoinReaperReturn", 0, 0, nil)
    /\ UNCHANGED <<now, sessions, nextUUID, inflight, rpc, wakeAt, ctxDone, stopClosed,
                   recorded, fate>>
    /\ UNCHANGED lockVars
    /\ UNCHANGED clientVars
    /\ UNCHANGED runVars

\* A direct call of createSession with a fresh UUID, as the tests make.
createSessionCall ==
    /\ nextUUID <= NumTokens
    /\ nextUUID' = nextUUID + 1
    /\ sessions' = createSession(sessions, nextUUID, now)
    /\ last' = Event("createSession", nextUUID, 0, nil)
    /\ UNCHANGED <<now, inflight, recorded, fate>>
    /\ UNCHANGED reaperVars
    /\ UNCHANGED lockVars
    /\ UNCHANGED clientVars
    /\ UNCHANGED runVars

(***************************************************************************)
(* The server as cmd/dash-server runs it: the reaper is started with       *)
(* context.Background(), which is never cancelled, before any request is   *)
(* served; requests are served concurrently.                               *)
(***************************************************************************)
InitServing ==
    /\ now = 0
    /\ sessions = <<>>
    /\ nextUUID = 1
    /\ inflight = EmptyBag
    /\ rpc = "loop"
    /\ wakeAt = 0
    /\ ctxDone = FALSE
    /\ stopClosed = FALSE
    /\ jpc = "none"
    /\ recorded = [u \in ReqTokens |-> <<>>]
    /\ fate = [u \in ReqTokens |-> NoFate]
    /\ last = Event("StartReaper", 0, 0, nil)
    /\ mtx = 0
    /\ calls = [g \in Goroutines |-> Idle]
    /\ InitClient

Next ==
    \/ \E d \in LongTickSteps : Tick(d)
    \/ \E addr \in RemoteAddrs, fail \in NegotiateFailures : negotiate(addr, fail)
    \/ \E r \in Running, ok \in BOOLEAN : negotiateWrite(r, ok)
    \/ \E r \in Running : negotiateCreate(r)
    \/ \E UUID \in ReqTokens, suffix \in PathSuffixes, randOK \in BOOLEAN :
          download(UUID, suffix, randOK)
    \/ \E r \in Running : downloadUpdate(r)
    \/ \E UUID \in ReqTokens : collect(UUID)
    \/ \E r \in Running, body \in Bodies, fail \in CollectFailures :
          collectBody(r, body, fail)
    \/ reaperLoop
    \/ reaperSweep

Spec == InitServing /\ [][Next]_vars

(***************************************************************************)
(* The reaper as TestServerReaper runs it: sessions are created by direct  *)
(* calls of createSession, the reaper is started, its context is cancelled *)
(* and JoinReaper is called.                                               *)
(***************************************************************************)
ReaperNext ==
    \/ \E d \in TickSteps : Tick(d)
    \/ createSessionCall
    \/ StartReaper
    \/ reaperLoop
    \/ reaperSweep
    \/ Cancel
    \/ JoinReaper
    \/ JoinReaperReturn

ReaperSpec == Init /\ [][ReaperNext]_vars

\* The Go scheduler runs the reaper goroutine and the goroutine blocked in
\* JoinReaper whenever they can take a step, and time passes.
ReaperFairness ==
    /\ WF_vars(\E d \in TickSteps : Tick(d))
    /\ WF_vars(reaperLoop)
    /\ WF_vars(reaperSweep)
    /\ WF_vars(JoinReaperReturn)

FairReaperSpec == ReaperSpec /\ ReaperFairness

(***************************************************************************)
(* The operations of the table, statement by statement.  A goroutine g is  *)
(* at position calls[g].pc: the statement it executes next.  h.mtx.Lock()  *)
(* waits until the mutex is free; the deferred h.mtx.Unlock() runs when    *)
(* the operation returns; the statements that read or write h.sessions,    *)
(* or a session reached through it, check nothing.  The handlers call the  *)
(* operations as the code does: negotiate calls createSession, download    *)
(* calls getSessionState and then, for an active session, updateSession,   *)
(* collect calls popSession and then fills and saves the session that it   *)
(* got, and the reaper calls reapStaleSessions.                            *)
(***************************************************************************)
Call(pc, UUID, t, ret) == [pc |-> pc, UUID |-> UUID, t |-> t, ret |-> ret]

\* The variables that the handlers' and the reaper's own steps use and that
\* the statement-level steps leave alone.
coarseVars == <<inflight, rpc, wakeAt, ctxDone, stopClosed, jpc, recorded, fate, last>>

\* Goroutine g moves to c; nothing else of the statement-level state changes.
Goes(g, c) == calls' = [calls EXCEPT ![g] = c]
At(g, pc) == calls[g].pc = pc

\* The positions whose statement reads or writes h.sessions or a session
\* that is in it.
TableAccess ==
    {"createSession.store", "getSessionState.load", "updateSession.load",
     "updateSession.append", "popSession.load", "popSession.delete",
     "CountSessions.len", "reapStaleSessions.range", "reapStaleSessions.delete"}

\* h.mtx.Lock(), in each of the six operations.
LockPositions ==
    {"createSession.Lock", "getSessionState.Lock", "updateSession.Lock",
     "popSession.Lock", "CountSessions.Lock", "reapStaleSessions.Lock"}

\* The position after h.mtx.Lock().
AfterLock(pc) ==
    CASE pc = "createSession.Lock" -> "createSession.store"
      [] pc = "getSessionState.Lock" -> "getSessionState.load"
      [] pc = "updateSession.Lock" -> "updateSession.load"
      [] pc = "popSession.Lock" -> "popSession.load"
      [] pc = "CountSessions.Lock" -> "CountSessions.len"
      [] pc = "reapStaleSessions.Lock" -> "reapStaleSessions.range"

\* h.mtx.Lock()
Lock(g) ==
    /\ calls[g].pc \in LockPositions
    /\ mtx = 0
    /\ mtx' = g
    /\ Goes(g, [calls[g] EXCEPT !.pc = AfterLock(@)])
    /\ UNCHANGED <<now, sessions, nextUUID>>
    /\ UNCHANGED coarseVars
    /\ UNCHANGED clientVars
    /\ UNCHANGED runVars

\* negotiate calls h.createSession(UUID) with a fresh UUID:
\* now := time.Now(); session := &sessionInfo{...}
createSessionEnter(g) ==
    /\ g # ReaperGoroutine
    /\ At(g, "idle")
    /\ nextUUID <= NumTokens
    /\ nextUUID' = nextUUID + 1
    /\ Goes(g, Call("createSession.Lock", nextUUID, now, nil))
    /\ UNCHANGED <<now, sessions, mtx>>
    /\ UNCHANGED coarseVars
    /\ UNCHANGED clientVars
    /\ UNCHANGED runVars

\* h.sessions[UUID] = session
createSessionStore(g) ==
    /\ At(g, "createSession.store")
    /\ sessions' = createSession(sessions, calls[g].UUID, calls[g].t)
    /\ Goes(g, [calls[g] EXCEPT !.pc = "createSession.Unlock"])
    /\ UNCHANGED <<now, nextUUID, mtx>>
    /\ UNCHANGED coarseVars
    /\ UNCHANGED clientVars
    /\ UNCHANGED runVars

\* download calls h.getSessionState(UUID).
getSessionStateEnter(g, UUID) ==
    /\ g # ReaperGoroutine
    /\ At(g, "idle")
    /\ Goes(g, Call("getSessionState.Lock", UUID, 0, nil))
    /\ UNCHANGED <<now, sessions, nextUUID, mtx>>
    /\ UNCHANGED coarseVars
    /\ UNCHANGED clientVars
    /\ UNCHANGED runVars

\* session, ok := h.sessions[UUID]; the comparison of session.iteration
getSessionStateLoad(g) ==
    /\ At(g, "getSessionState.load")
    /\ Goes(g, [calls[g] EXCEPT !.pc = "getSessionState.Unlock",
                                !.ret = getSessionState(sessions, calls[g].UUID)])
    /\ UNCHANGED <<now, sessions, nextUUID, mtx>>
    /\ UNCHANGED coarseVars
    /\ UNCHANGED clientVars
    /\ UNCHANGED runVars

\* download, for an active session, calls h.updateSession: now := time.Now()
updateSessionNow(g) ==
    /\ At(g, "updateSession.now")
    /\ Goes(g, [calls[g] EXCEPT !.pc = "updateSession.Lock", !.t = now])
    /\ UNCHANGED <<now, sessions, nextUUID, mtx>>
    /\ UNCHANGED coarseVars
    /\ UNCHANGED clientVars
    /\ UNCHANGED runVars

\* Mutant: updateSession gives up the mutex once it has found the session.
updateSessionLoadUnlocking(g) ==
    /\ At(g, "updateSession.load")
    /\ mtx' = 0
    /\ Goes(g, [calls[g] EXCEPT
                  !.pc = IF calls[g].UUID \in DOMAIN sessions
                         THEN "updateSession.append" ELSE "updateSession.Unlock",
                  !.ret = nil])
    /\ UNCHANGED <<now, sessions, nextUUID>>
    /\ UNCHANGED coarseVars
    /\ UNCHANGED clientVars
    /\ UNCHANGED runVars

\* session, ok := h.sessions[UUID]; if ok { ... }
updateSessionLoad(g) ==
    /\ At(g, "updateSession.load")
    /\ Goes(g, [calls[g] EXCEPT
                  !.pc = IF calls[g].UUID \in DOMAIN sessions
                         THEN "updateSession.append" ELSE "updateSession.Unlock",
                  !.ret = nil])
    /\ UNCHANGED <<now, sessions, nextUUID, mtx>>
    /\ UNCHANGED coarseVars
    /\ UNCHANGED clientVars
    /\ UNCHANGED runVars

\* session.serverSchema.Server = append(...); session.iteration++
updateSessionAppend(g) ==
    /\ At(g, "updateSession.append")
    /\ sessions' = updateSession(sessions, calls[g].UUID, calls[g].t)
    /\ Goes(g, [calls[g] EXCEPT !.pc = "updateSession.Unlock"])
    /\ UNCHANGED <<now, nextUUID, mtx>>
    /\ UNCHANGED coarseVars
    /\ UNCHANGED clientVars
    /\ UNCHANGED runVars

\* collect calls h.popSession(UUID).
popSessionEnter(g, UUID) ==
    /\ g # ReaperGoroutine
    /\ At(g, "idle")
    /\ Goes(g, Call("popSession.Lock", UUID, 0, nil))
    /\ UNCHANGED <<now, sessions, nextUUID, mtx>>
    /\ UNCHANGED coarseVars
    /\ UNCHANGED clientVars
    /\ UNCHANGED runVars

\* session, ok := h.sessions[UUID]; if ok == false { return nil }
popSessionLoad(g) ==
    /\ At(g, "popSession.load")
    /\ Goes(g, [calls[g] EXCEPT
                  !.pc = IF calls[g].UUID \in DOMAIN sessions
                         THEN "popSession.delete" ELSE "popSession.Unlock",
                  !.ret = popSessionResult(sessions, calls[g].UUID)])
    /\ UNCHANGED <<now, sessions, nextUUID, mtx>>
    /\ UNCHANGED coarseVars
    /\ UNCHANGED clientVars
    /\ UNCHANGED runVars

\* delete(h.sessions, UUID); return session
popSessionDelete(g) ==
    /\ At(g, "popSession.delete")
    /\ sessions' = popSessionTable(sessions, calls[g].UUID)
    /\ Goes(g, [calls[g] EXCEPT !.pc = "popSession.Unlock"])
    /\ UNCHANGED <<now, nextUUID, mtx>>
    /\ UNCHANGED coarseVars
    /\ UNCHANGED clientVars
    /\ UNCHANGED runVars

\* collect: json.Unmarshal(data, &session.serverSchema.Client), with the
\* session that popSession returned and without the mutex; collect returns
\* if the body is no JSON.
collectFill(g, body) ==
    /\ At(g, "collect.fill")
    /\ IF body.json
       THEN Goes(g, [calls[g] EXCEPT !.pc = "collect.save",
                                     !.ret.serverSchema.Client = body.value])
       ELSE Goes(g, Idle)
    /\ UNCHANGED <<now, sessions, nextUUID, mtx>>
    /\ UNCHANGED coarseVars
    /\ UNCHANGED clientVars
    /\ UNCHANGED runVars

\* collect: JSONMarshal(session.serverSchema.Server); h.savedata(session)
collectSave(g) ==
    /\ At(g, "collect.save")
    /\ Goes(g, Idle)
    /\ UNCHANGED <<now, sessions, nextUUID, mtx>>
    /\ UNCHANGED coarseVars
    /\ UNCHANGED clientVars
    /\ UNCHANGED runVars

\* Mutant: CountSessions reads the table without taking the mutex.
CountSessionsEnterUnlocked(g) ==
    /\ g # ReaperGoroutine
    /\ At(g, "idle")
    /\ Goes(g, Call("CountSessions.len", 0, 0, nil))
    /\ UNCHANGED <<now, sessions, nextUUID, mtx>>
    /\ UNCHANGED coarseVars
    /\ UNCHANGED clientVars
    /\ UNCHANGED runVars

\* A call of h.CountSessions().
CountSessionsEnter(g) ==
    /\ g # ReaperGoroutine
    /\ At(g, "idle")
    /\ Goes(g, Call("CountSessions.Lock", 0, 0, nil))
    /\ UNCHANGED <<now, sessions, nextUUID, mtx>>
    /\ UNCHANGED coarseVars
    /\ UNCHANGED clientVars
    /\ UNCHANGED runVars

\* count = len(h.sessions)
CountSessionsLen(g) ==
    /\ At(g, "CountSessions.len")
    /\ Goes(g, [calls[g] EXCEPT !.pc = "CountSessions.Unlock",
                                !.ret = CountSessions(sessions)])
    /\ UNCHANGED <<now, sessions, nextUUID, mtx>>
    /\ UNCHANGED coarseVars
    /\ UNCHANGED clientVars
    /\ UNCHANGED runVars

\* The reaper calls h.reapStaleSessions().
reapStaleSessionsEnter(g) ==
    /\ g = ReaperGoroutine
    /\ At(g, "idle")
    /\ Goes(g, Call("reapStaleSessions.Lock", 0, 0, nil))
    /\ UNCHANGED <<now, sessions, nextUUID, mtx>>
    /\ UNCHANGED coarseVars
    /\ UNCHANGED clientVars
    /\ UNCHANGED runVars

\* now := time.Now(); for UUID, session := range h.sessions { ... }
reapStaleSessionsRange(g) ==
    /\ At(g, "reapStaleSessions.range")
    /\ Goes(g, [calls[g] EXCEPT !.pc = "reapStaleSessions.delete",
                                !.t = now,
                                !.ret = stale(sessions, now)])
    /\ UNCHANGED <<now, sessions, nextUUID, mtx>>
    /\ UNCHANGED coarseVars
    /\ UNCHANGED clientVars
    /\ UNCHANGED runVars

\* for _, UUID := range stale { delete(h.sessions, UUID) }
reapStaleSessionsDelete(g) ==
    /\ At(g, "reapStaleSessions.delete")
    /\ sessions' = [u \in (DOMAIN sessions) \ calls[g].ret |-> sessions[u]]
    /\ Goes(g, [calls[g] EXCEPT !.pc = "reapStaleSessions.Unlock", !.ret = nil])
    /\ UNCHANGED <<now, nextUUID, mtx>>
    /\ UNCHANGED coarseVars
    /\ UNCHANGED clientVars
    /\ UNCHANGED runVars

\* The deferred h.mtx.Unlock() and the return to the caller, which goes on
\* with updateSession (download, session active), with the session that it
\* popped (collect), or ends.
UnlockPositions ==
    {"createSession.Unlock", "getSessionState.Unlock", "updateSession.Unlock",
     "popSession.Unlock", "CountSessions.Unlock", "reapStaleSessions.Unlock"}

AfterReturn(c) ==
    IF c.pc = "getSessionState.Unlock" /\ c.ret = sessionActive
    THEN Call("updateSession.now", c.UUID, 0, nil)
    ELSE IF c.pc = "popSession.Unlock" /\ c.ret # nil
    THEN Call("collect.fill", c.UUID, 0, c.ret)
    ELSE Idle

Unlock(g) ==
    /\ calls[g].pc \in UnlockPositions
    /\ mtx' = 0
    /\ Goes(g, AfterReturn(calls[g]))
    /\ UNCHANGED <<now, sessions, nextUUID>>
    /\ UNCHANGED coarseVars
    /\ UNCHANGED clientVars
    /\ UNCHANGED runVars

LockNext ==
    \/ \E d \in LongTickSteps : Tick(d)
    \/ \E g \in Goroutines : Lock(g)
    \/ \E g \in Goroutines : Unlock(g)
    \/ \E g \in Goroutines : createSessionEnter(g)
    \/ \E g \in Goroutines : createSessionStore(g)
    \/ \E g \in Goroutines, UUID \in Tokens : getSessionStateEnter(g, UUID)
    \/ \E g \in Goroutines : getSessionStateLoad(g)
    \/ \E g \in Goroutines : updateSessionNow(g)
    \/ \E g \in Goroutines : updateSessionLoad(g)
    \/ \E g \in Goroutines : updateSessionAppend(g)
    \/ \E g \in Goroutines, UUID \in Tokens : popSessionEnter(g, UUID)
    \/ \E g \in Goroutines : popSessionLoad(g)
    \/ \E g \in Goroutines : popSessionDelete(g)
    \/ \E g \in Goroutines, body \in Bodies : collectFill(g, body)
    \/ \E g \in Goroutines : collectSave(g)
    \/ \E g \in Goroutines : CountSessionsEnter(g)
    \/ \E g \in Goroutines : CountSessionsLen(g)
    \/ \E g \in Goroutines : reapStaleSessionsEnter(g)
    \/ \E g \in Goroutines : reapStaleSessionsRange(g)
    \/ \E g \in Goroutines : reapStaleSessionsDelete(g)

LockSpec == InitServing /\ [][LockNext]_vars

(***************************************************************************)
(* The client, src/client/client.go: StartDownload starts the goroutine    *)
(* that runs Client.loop, which calls c.deps.Negotiate, c.deps.Download    *)
(* and c.deps.Collect (each sends one request and returns nil or an        *)
(* error), hands every result to the consumer through the unbuffered       *)
(* channel ch, and closes ch when it returns.                              *)
(***************************************************************************)
\* The variables of the server.
serverVars == <<now, sessions, nextUUID, inflight, rpc, wakeAt, ctxDone, stopClosed, jpc,
                recorded, fate, last>>

\* ctx.Err() once the context is cancelled or its deadline has passed.
ContextErrors == {"context canceled", "context deadline exceeded"}

\* What c.deps.HTTPClientDo and the reading of the body give to negotiate,
\* download and collect: an error and no response, or a response with its
\* status code, whether its body is read and parsed without error, and (for
\* negotiate) the fields Authorization and Unchoked of the body.
NoReply(e) ==
    [err |-> e, StatusCode |-> 0, json |-> FALSE, Authorization |-> "", Unchoked |-> 0]
Reply(StatusCode, json, Authorization, Unchoked) ==
    [err |-> "nil", StatusCode |-> StatusCode, json |-> json,
     Authorization |-> Authorization, Unchoked |-> Unchoked]
NegotiateReplies ==
    {NoReply("transport error"), Reply(500, FALSE, "", 0), Reply(200, FALSE, "", 0),
     Reply(200, TRUE, "", 1), Reply(200, TRUE, "token", 0), Reply(200, TRUE, "", 0),
     Reply(200, TRUE, "token", 1)}
DownloadReplies ==
    {NoReply("transport error"), Reply(429, FALSE, "", 0), Reply(200, FALSE, "", 0),
     Reply(200, TRUE, "", 0)}
CollectReplies ==
    {NoReply("transport error"), Reply(400, FALSE, "", 0), Reply(200, FALSE, "", 0),
     Reply(200, TRUE, "", 0)}

\* A request whose context is cancelled already fails with the context's
\* error; any other request gets one of the replies.
RepliesUnder(replies) == IF ctx = "nil" THEN replies ELSE {NoReply(ctx)}

\* What a download that succeeds has measured: the bytes that it received,
\* and the time that it took, in milliseconds.
Measurements ==
    {[Received |-> 25100, Elapsed |-> 1000], [Received |-> 750000, Elapsed |-> 2000],
     [Received |-> 1000000, Elapsed |-> 3000]}

Request(op, iteration, nbytes) == [op |-> op, iteration |-> iteration, nbytes |-> nbytes]

\* Mutant: negotiate takes any response with status 200 for an authorization.
clientNegotiateTrusting(reply) ==
    IF reply.err # "nil" THEN reply.err
    ELSE IF reply.StatusCode # 200 THEN "errHTTPRequestFailed"
    ELSE IF ~reply.json THEN "body error"
    ELSE "nil"

\* Client.negotiate: the error that it returns.
clientNegotiate(reply) ==
    IF reply.err # "nil" THEN reply.err
    ELSE IF reply.StatusCode # 200 THEN "errHTTPRequestFailed"
    ELSE IF ~reply.json THEN "body error"
    ELSE IF reply.Authorization = "" \/ reply.Unchoked = 0 THEN "ErrServerBusy"
    ELSE "nil"

\* Client.download: the error that it returns.
clientDownload(reply) ==
    IF reply.err # "nil" THEN reply.err
    ELSE IF reply.StatusCode # 200 THEN "errHTTPRequestFailed"
    ELSE IF ~reply.json THEN "body error"
    ELSE "nil"

\* Client.collect: the error that it returns.
clientCollect(reply) ==
    IF reply.err # "nil" THEN reply.err
    ELSE IF reply.StatusCode # 200 THEN "errHTTPRequestFailed"
    ELSE IF ~reply.json THEN "body error"
    ELSE "nil"

\* nbytes := (current.Rate * 1000 * current.ElapsedTarget) >> 3
nbytes(c) == (c.Rate * 1000 * c.ElapsedTarget) \div 8

\* Mutant: the rate is rounded up to the next kbit/s.
RateRoundedUp(c) == (c.Received * 8 + c.Elapsed - 1) \div c.Elapsed

\* speed := float64(current.Received) / float64(current.Elapsed); speed *=
\* 8.0; speed /= 1000.0; current.Rate = int64(speed), with the time elapsed
\* in milliseconds.
Rate(c) == (c.Received * 8) \div c.Elapsed

\* What Locate returns as error, when the client has no FQDN.
LocateErrors == {"nil", "mlabns error"}

\* A cancellation of the caller's context, or the passing of its deadline.
CancelContext(e) ==
    /\ ctx = "nil"
    /\ consumer # "returned"
    /\ ctx' = e
    /\ UNCHANGED <<cpc, current, clientResults, err, ch, chClosed, requests,
                   startRet, consumer, observed, outcomes, submitted>>
    /\ UNCHANGED serverVars
    /\ UNCHANGED runVars
    /\ UNCHANGED lockVars

\* Mutant: StartDownload does not look at the context.
StartDownloadIgnoringContext(fqdn, locateErr) ==
    /\ cpc = "new"
    /\ consumer = "main"
    /\ LET failure == IF ~fqdn /\ locateErr # "nil" THEN locateErr ELSE "nil"
       IN  /\ startRet' = [returned |-> TRUE, ch |-> failure = "nil", err |-> failure]
           /\ cpc' = IF failure = "nil" THEN "negotiate" ELSE "refused"
           /\ consumer' = IF failure = "nil" THEN "range" ELSE "returning"
    /\ UNCHANGED <<current, clientResults, err, ch, chClosed, requests, ctx,
                   observed, outcomes, submitted>>
    /\ UNCHANGED serverVars
    /\ UNCHANGED runVars
    /\ UNCHANGED lockVars

\* StartDownload, called by realmain: it returns (nil, err) if c.FQDN is empty
\* and c.deps.Locate fails, (nil, ctx.Err()) if the context is cancelled
\* already, and else makes the channel, starts the loop and returns (ch, nil);
\* realmain returns the error, or starts to range over the channel.
StartDownload(fqdn, locateErr) ==
    /\ cpc = "new"
    /\ consumer = "main"
    /\ LET failure == IF ~fqdn /\ locateErr # "nil" THEN locateErr
                      ELSE IF ctx # "nil" THEN ctx
                      ELSE "nil"
       IN  /\ startRet' = [returned |-> TRUE, ch |-> failure = "nil", err |-> failure]
           /\ cpc' = IF failure = "nil" THEN "negotiate" ELSE "refused"
           /\ consumer' = IF failure = "nil" THEN "range" ELSE "returning"
    /\ UNCHANGED <<current, clientResults, err, ch, chClosed, requests, ctx,
                   observed, outcomes, submitted>>
    /\ UNCHANGED serverVars
    /\ UNCHANGED runVars
    /\ UNCHANGED lockVars

\* negotiateResponse, c.err = c.deps.Negotiate(ctx); if c.err != nil { return }
\* current := model.ClientResults{...}, and the first test of the loop.
loopNegotiate(reply) ==
    /\ cpc = "negotiate"
    /\ requests' = Append(requests, Request("negotiate", 0, 0))
    /\ outcomes' = Append(outcomes, clientNegotiate(reply))
    /\ err' = clientNegotiate(reply)
    /\ IF err' # "nil"
       THEN /\ cpc' = "closing"
            /\ UNCHANGED current
       ELSE /\ current' = [Iteration |-> 0, ElapsedTarget |-> 2, Rate |-> initialBitrate,
                           Received |-> 0, Elapsed |-> 0]
            /\ cpc' = IF 0 < numIterations THEN "download" ELSE "collect"
    /\ UNCHANGED <<clientResults, ch, chClosed, ctx, startRet, consumer, observed,
                   submitted>>
    /\ UNCHANGED serverVars
    /\ UNCHANGED runVars
    /\ UNCHANGED lockVars

\* Mutant: the loop tries the failed download once more.
loopDownloadRetrying(reply, m) ==
    /\ cpc = "download"
    /\ requests' = Append(requests, Request("download", current.Iteration, nbytes(current)))
    /\ outcomes' = Append(outcomes, clientDownload(reply))
    /\ err' = clientDownload(reply)
    /\ IF err' # "nil"
       THEN /\ cpc' = IF requests # <<>> /\ requests[Len(requests)].op = "download"
                         /\ requests[Len(requests)].iteration = current.Iteration
                      THEN "closing" ELSE "download"
            /\ UNCHANGED <<current, clientResults>>
       ELSE /\ current' = [current EXCEPT !.Received = m.Received, !.Elapsed = m.Elapsed]
            /\ clientResults' = Append(clientResults, current')
            /\ cpc' = "send"
    /\ UNCHANGED <<ch, chClosed, ctx, startRet, consumer, observed, submitted>>
    /\ UNCHANGED serverVars
    /\ UNCHANGED runVars
    /\ UNCHANGED lockVars

\* c.err = c.deps.Download(ctx, authorization, &current); if c.err != nil
\* { return }; c.clientResults = append(c.clientResults, current)
loopDownload(reply, m) ==
    /\ cpc = "download"
    /\ requests' = Append(requests, Request("download", current.Iteration, nbytes(current)))
    /\ outcomes' = Append(outcomes, clientDownload(reply))
    /\ err' = clientDownload(reply)
    /\ IF err' # "nil"
       THEN /\ cpc' = "closing"
            /\ UNCHANGED <<current, clientResults>>
       ELSE /\ current' = [current EXCEPT !.Received = m.Received, !.Elapsed = m.Elapsed]
            /\ clientResults' = Append(clientResults, current')
            /\ cpc' = "send"
    /\ UNCHANGED <<ch, chClosed, ctx, startRet, consumer, observed, submitted>>
    /\ UNCHANGED serverVars
    /\ UNCHANGED runVars
    /\ UNCHANGED lockVars

\* Mutant: the loop hands over the result of every other iteration only.
loopSendSkipping ==
    /\ cpc = "send"
    /\ consumer = "range"
    /\ ch' = IF current.Iteration % 2 = 0 THEN Append(ch, current) ELSE ch
    /\ current' = [current EXCEPT !.Iteration = @ + 1, !.Rate = Rate(current)]
    /\ cpc' = IF current.Iteration + 1 < numIterations THEN "download" ELSE "collect"
    /\ UNCHANGED <<clientResults, err, chClosed, requests, ctx, startRet, consumer,
                   observed, outcomes, submitted>>
    /\ UNCHANGED serverVars
    /\ UNCHANGED runVars
    /\ UNCHANGED lockVars

\* ch <- current, a send on a channel without buffer: it happens when the
\* consumer, which ranges over the channel, receives; then current.Iteration++,
\* the new current.Rate, and the next test of the loop.
loopSend ==
    /\ cpc = "send"
    /\ consumer = "range"
    /\ ch' = Append(ch, current)
    /\ current' = [current EXCEPT !.Iteration = @ + 1, !.Rate = Rate(current)]
    /\ cpc' = IF current.Iteration + 1 < numIterations THEN "download" ELSE "collect"
    /\ UNCHANGED <<clientResults, err, chClosed, requests, ctx, startRet, consumer,
                   observed, outcomes, submitted>>
    /\ UNCHANGED serverVars
    /\ UNCHANGED runVars
    /\ UNCHANGED lockVars

\* Mutant: the collect request carries the last result only.
loopCollectLastOnly(reply) ==
    /\ cpc = "collect"
    /\ requests' = Append(requests, Request("collect", 0, 0))
    /\ submitted' = IF clientResults = <<>> THEN <<>>
                    ELSE <<clientResults[Len(clientResults)]>>
    /\ outcomes' = Append(outcomes, clientCollect(reply))
    /\ err' = clientCollect(reply)
    /\ cpc' = "closing"
    /\ UNCHANGED <<current, clientResults, ch, chClosed, ctx, startRet, consumer,
                   observed>>
    /\ UNCHANGED serverVars
    /\ UNCHANGED runVars
    /\ UNCHANGED lockVars

\* Mutant: the loop does not keep the error of collect.
loopCollectDroppingError(reply) ==
    /\ cpc = "collect"
    /\ requests' = Append(requests, Request("collect", 0, 0))
    /\ submitted' = clientResults
    /\ outcomes' = Append(outcomes, clientCollect(reply))
    /\ err' = "nil"
    /\ cpc' = "closing"
    /\ UNCHANGED <<current, clientResults, ch, chClosed, ctx, startRet, consumer,
                   observed>>
    /\ UNCHANGED serverVars
    /\ UNCHANGED runVars
    /\ UNCHANGED lockVars

\* c.err = c.deps.Collect(ctx, negotiateResponse.Authorization), whose
\* request carries c.clientResults.
loopCollect(reply) ==
    /\ cpc = "collect"
    /\ requests' = Append(requests, Request("collect", 0, 0))
    /\ submitted' = clientResults
    /\ outcomes' = Append(outcomes, clientCollect(reply))
    /\ err' = clientCollect(reply)
    /\ cpc' = "closing"
    /\ UNCHANGED <<current, clientResults, ch, chClosed, ctx, startRet, consumer,
                   observed>>
    /\ UNCHANGED serverVars
    /\ UNCHANGED runVars
    /\ UNCHANGED lockVars

\* Mutant: the loop closes the channel when it has succeeded only.
loopCloseOnSuccess ==
    /\ cpc = "closing"
    /\ chClosed' = IF err = "nil" THEN chClosed + 1 ELSE chClosed
    /\ cpc' = "done"
    /\ UNCHANGED <<current, clientResults, err, ch, requests, ctx, startRet, consumer,
                   observed, outcomes, submitted>>
    /\ UNCHANGED serverVars
    /\ UNCHANGED runVars
    /\ UNCHANGED lockVars

\* The deferred close(ch), when loop returns.
loopClose ==
    /\ cpc = "closing"
    /\ chClosed' = chClosed + 1
    /\ cpc' = "done"
    /\ UNCHANGED <<current, clientResults, err, ch, requests, ctx, startRet, consumer,
                   observed, outcomes, submitted>>
    /\ UNCHANGED serverVars
    /\ UNCHANGED runVars
    /\ UNCHANGED lockVars

\* realmain: the range over the channel ends when the channel is closed.
realmainRangeEnd ==
    /\ consumer = "range"
    /\ chClosed > 0
    /\ consumer' = "drained"
    /\ UNCHANGED <<cpc, current, clientResults, err, ch, chClosed, requests, ctx,
                   startRet, observed, outcomes, submitted>>
    /\ UNCHANGED serverVars
    /\ UNCHANGED runVars
    /\ UNCHANGED lockVars

\* realmain: if client.Error() != nil { return client.Error() }, two calls
\* of Client.Error, which returns c.err.
realmainError ==
    /\ consumer \in {"drained", "failed"}
    /\ observed' = Append(observed, err)
    /\ consumer' = IF consumer = "drained" /\ err # "nil" THEN "failed" ELSE "returning"
    /\ UNCHANGED <<cpc, current, clientResults, err, ch, chClosed, requests, ctx,
                   startRet, outcomes, submitted>>
    /\ UNCHANGED serverVars
    /\ UNCHANGED runVars
    /\ UNCHANGED lockVars

\* realmain returns: its deferred cancel().
realmainReturn ==
    /\ consumer = "returning"
    /\ consumer' = "returned"
    /\ ctx' = IF ctx = "nil" THEN "context canceled" ELSE ctx
    /\ UNCHANGED <<cpc, current, clientResults, err, ch, chClosed, requests,
                   startRet, observed, outcomes, submitted>>
    /\ UNCHANGED serverVars
    /\ UNCHANGED runVars
    /\ UNCHANGED lockVars

ClientNext ==
    \/ \E e \in ContextErrors : CancelContext(e)
    \/ \E fqdn \in BOOLEAN, locateErr \in LocateErrors : StartDownload(fqdn, locateErr)
    \/ \E reply \in RepliesUnder(NegotiateReplies) : loopNegotiate(reply)
    \/ \E reply \in RepliesUnder(DownloadReplies), m \in Measurements : loopDownload(reply, m)
    \/ loopSend
    \/ \E reply \in RepliesUnder(CollectReplies) : loopCollect(reply)
    \/ loopClose
    \/ realmainRangeEnd
    \/ realmainError
    \/ realmainReturn

ClientSpec == Init /\ [][ClientNext]_vars

(***************************************************************************)
(* The client as a library: StartDownload is exported, and a caller other  *)
(* than realmain may stop receiving from the channel once its context is   *)
(* cancelled.  The loop goroutine takes its steps as long as it can: while *)
(* the context is cancelled a request returns at once with an error.       *)
(***************************************************************************)
\* A caller that receives from the channel in a select with ctx.Done(), and
\* returns when the context is cancelled.
callerReturnsOnDone ==
    /\ consumer = "range"
    /\ ctx # "nil"
    /\ consumer' = "returning"
    /\ UNCHANGED <<cpc, current, clientResults, err, ch, chClosed, requests, ctx,
                   startRet, observed, outcomes, submitted>>
    /\ UNCHANGED serverVars
    /\ UNCHANGED runVars
    /\ UNCHANGED lockVars

LibraryNext ==
    \/ ClientNext
    \/ callerReturnsOnDone

\* The loop goroutine runs when it can, and so does realmain.
LoopFairness ==
    /\ WF_vars(\E reply \in RepliesUnder(NegotiateReplies) : loopNegotiate(reply))
    /\ WF_vars(\E reply \in RepliesUnder(DownloadReplies), m \in Measurements :
                 loopDownload(reply, m))
    /\ WF_vars(loopSend)
    /\ WF_vars(\E reply \in RepliesUnder(CollectReplies) : loopCollect(reply))
    /\ WF_vars(loopClose)
    /\ WF_vars(realmainRangeEnd)
    /\ WF_vars(realmainError)
    /\ WF_vars(realmainReturn)

FairClientSpec == Init /\ [][ClientNext]_vars /\ LoopFairness

FairLibrarySpec == Init /\ [][LibraryNext]_vars /\ LoopFairness

(***************************************************************************)
(* Clients that run against the server, as the tests of                    *)
(* src/cmd/dash-client do: each client is a Client.loop whose requests are *)
(* answered by the handlers of one Handler built by NewHandler             *)
(* (MaxIterations 17), for clients built by New (numIterations 15).  No    *)
(* request fails in transport, no context is cancelled, no dependency of   *)
(* the server fails, and the clock does not reach the age at which the     *)
(* reaper removes a session.  A handler runs between the request and the   *)
(* response of one client: the response of negotiate, which is small, is   *)
(* sent when the handler returns, after createSession.  The two critical   *)
(* sections of download are two steps.                                     *)
(***************************************************************************)
Clients == 1..NumClients

\* The variables that a run leaves alone.
idleVars == <<inflight, rpc, wakeAt, ctxDone, stopClosed, jpc, recorded, fate, last, now>>

\* The client c goes on as r.
Runs(c, r) == runs' = [runs EXCEPT ![c] = r]

\* The client has received a response with this status for its request.
Answered(c, status, e) ==
    [runs[c] EXCEPT !.status = status, !.err = e,
                    !.pc = IF e = "nil" THEN @ ELSE "failed"]

\* Client.negotiate and Handler.negotiate: the handler replies with a new
\* UUID as Authorization and with Unchoked 1, and creates the session.
runNegotiate(c) ==
    /\ runs[c].pc = "negotiate"
    /\ sessions' = createSession(sessions, nextUUID, now)
    /\ nextUUID' = nextUUID + 1
    /\ LET e == clientNegotiate(Reply(200, TRUE, "token", 1))
       IN  Runs(c, [Answered(c, 200, e) EXCEPT
                      !.Authorization = nextUUID,
                      !.pc = IF e # "nil" THEN "failed"
                             ELSE IF 0 < DefaultNumIterations THEN "download"
                             ELSE "collect"])
    /\ UNCHANGED idleVars
    /\ UNCHANGED lockVars
    /\ UNCHANGED clientVars

\* Client.download and the first critical section of Handler.download: the
\* handler answers 400 or 429, or goes on.
runDownload(c) ==
    /\ runs[c].pc = "download"
    /\ LET state == getSessionStateOf(sessions, runs[c].Authorization, DefaultMaxIterations)
           status == IF state = sessionMissing THEN 400 ELSE 429
       IN  IF state = sessionActive
           THEN Runs(c, [runs[c] EXCEPT !.pc = "update"])
           ELSE Runs(c, Answered(c, status, clientDownload(Reply(status, FALSE, "", 0))))
    /\ UNCHANGED <<sessions, nextUUID>>
    /\ UNCHANGED idleVars
    /\ UNCHANGED lockVars
    /\ UNCHANGED clientVars

\* Mutant: the handler counts every download twice.
runUpdateTwice(c) ==
    /\ runs[c].pc = "update"
    /\ sessions' = updateSessionTwice(sessions, runs[c].Authorization, now)
    /\ LET e == clientDownload(Reply(200, TRUE, "", 0))
       IN  Runs(c, [Answered(c, 200, e) EXCEPT
                      !.Iteration = @ + 1,
                      !.pc = IF e # "nil" THEN "failed"
                             ELSE IF runs[c].Iteration + 1 < DefaultNumIterations
                             THEN "download" ELSE "collect"])
    /\ UNCHANGED nextUUID
    /\ UNCHANGED idleVars
    /\ UNCHANGED lockVars
    /\ UNCHANGED clientVars

\* The second critical section of Handler.download, updateSession, and its
\* response 200 with the body; then current.Iteration++ and the test of the
\* loop of the client.
runUpdate(c) ==
    /\ runs[c].pc = "update"
    /\ sessions' = updateSession(sessions, runs[c].Authorization, now)
    /\ LET e == clientDownload(Reply(200, TRUE, "", 0))
       IN  Runs(c, [Answered(c, 200, e) EXCEPT
                      !.Iteration = @ + 1,
                      !.pc = IF e # "nil" THEN "failed"
                             ELSE IF runs[c].Iteration + 1 < DefaultNumIterations
                             THEN "download" ELSE "collect"])
    /\ UNCHANGED nextUUID
    /\ UNCHANGED idleVars
    /\ UNCHANGED lockVars
    /\ UNCHANGED clientVars

\* Client.collect and Handler.collect: the handler pops the session and
\* answers 400 if there is none, and else 200 with session.serverSchema.Server,
\* which the client stores in c.serverResults.
runCollect(c) ==
    /\ runs[c].pc = "collect"
    /\ LET session == popSessionResult(sessions, runs[c].Authorization)
       IN  IF session = nil
           THEN Runs(c, Answered(c, 400, clientCollect(Reply(400, FALSE, "", 0))))
           ELSE LET e == clientCollect(Reply(200, TRUE, "", 0))
                IN  Runs(c, [Answered(c, 200, e) EXCEPT
                               !.serverResults = session.serverSchema.Server,
                               !.pc = IF e = "nil" THEN "done" ELSE "failed"])
    /\ sessions' = popSessionTable(sessions, runs[c].Authorization)
    /\ UNCHANGED nextUUID
    /\ UNCHANGED idleVars
    /\ UNCHANGED lockVars
    /\ UNCHANGED clientVars

RunNext ==
    \/ \E c \in Clients : runNegotiate(c)
    \/ \E c \in Clients : runDownload(c)
    \/ \E c \in Clients : runUpdate(c)
    \/ \E c \in Clients : runCollect(c)

RunSpec == Init /\ [][RunNext]_vars

(***************************************************************************)
(* Properties of the server under concurrent requests (Spec).              *)
(***************************************************************************)
\* The handler goroutines that hold the popped session of UUID.
Collecting(UUID) == {r \in Running : r.pc = "collectBody" /\ r.token = UUID}

\* C1: whatever the interleaving of the collect requests that carry the
\* same token, at most one of them obtains the session, at most one answers
\* 200 and the session is persisted at most once; once a collect has popped
\* the session, the token is Missing for every other and later request.
C1_PopAtMostOnce ==
    \A u \in ReqTokens :
        /\ fate[u].popped <= 1
        /\ fate[u].ok <= 1
        /\ fate[u].saved <= 1
        /\ \A r \in Collecting(u) : CopiesIn(r, inflight) = 1
        /\ Cardinality(Collecting(u)) <= 1
        /\ fate[u].popped = 1 => getSessionState(sessions, u) = sessionMissing

\* C1 witness: a collect is answered 400 while another handler goroutine
\* holds the session that it popped under the same token.
C1_Witness ==
    /\ last.op = "collect"
    /\ last.status = 400
    /\ Collecting(last.token) # {}

\* C2: the server results that a collect answers with 200 are, element for
\* element and in order, the measurements that the downloads on that token
\* recorded before the session was popped; and so are the server results of
\* every session that is registered or held by a collect.
C2_CollectReturnsRecorded ==
    /\ [](\A u \in DOMAIN sessions : sessions[u].serverSchema.Server = recorded[u])
    /\ [](\A u \in ReqTokens : \A r \in Collecting(u) :
             r.session.serverSchema.Server = recorded[u])
    /\ [][(last'.op = "collect" /\ last'.status = 200)
             => last'.body = recorded[last'.token]]_vars

\* C2 witness: a collect has answered 200 with two measurements or more.
C2_Witness ==
    /\ last.op = "collect"
    /\ last.status = 200
    /\ Len(last.body) >= 2
    /\ last.body[1] # last.body[2]

\* The step is the first step of a download request that carries UUID.
DownloadArrives(UUID) ==
    \E suffix \in PathSuffixes, randOK \in BOOLEAN : download(UUID, suffix, randOK)

\* C3: once cap downloads have recorded their iteration on a session, the
\* session is Expired; a download that arrives for an Expired session is
\* answered 429 and records nothing; and an Expired session stays Expired
\* (it never becomes Active again, nor Missing) until a collect pops it or
\* the reaper deletes it.
C3_ExpiredRejects ==
    /\ [](\A u \in DOMAIN sessions :
             Len(recorded[u]) >= MaxIterations
                 => getSessionState(sessions, u) = sessionExpired)
    /\ [][\A u \in ReqTokens :
             getSessionState(sessions, u) = sessionExpired
                 => /\ DownloadArrives(u)
                       => /\ last'.status = 429
                          /\ sessions' = sessions
                          /\ recorded' = recorded
                          /\ inflight' = inflight
                    /\ getSessionState(sessions', u) # sessionExpired
                       => /\ last'.op \in {"popSession", "reapStaleSessions"}
                          /\ getSessionState(sessions', u) = sessionMissing]_vars

\* C3 witness: a download was answered 429 for a session on which cap
\* downloads recorded, and the session is still registered.
C3_Witness ==
    /\ last.op = "download"
    /\ last.status = 429
    /\ last.token \in DOMAIN sessions
    /\ Len(recorded[last.token]) = MaxIterations

\* C4: createSession leaves the session Active and counted; a registered
\* session is Active as long as fewer than cap calls of updateSession found
\* it, and Expired after cap calls and after any larger number of them.
C4_StateFollowsCount ==
    /\ [](\A u \in DOMAIN sessions :
             getSessionState(sessions, u) =
                 IF Len(recorded[u]) < MaxIterations THEN sessionActive
                 ELSE sessionExpired)
    /\ [][last'.op = "createSession"
             => /\ getSessionState(sessions', last'.token) = sessionActive
                /\ last'.token \notin DOMAIN sessions
                /\ CountSessions(sessions') = CountSessions(sessions) + 1]_vars

\* C4 witness: more than cap calls of updateSession found a session (two
\* downloads passed the state check before either of them recorded).
C4_Witness ==
    \E u \in DOMAIN sessions :
        /\ Len(recorded[u]) > MaxIterations
        /\ getSessionState(sessions, u) = sessionExpired

\* C5: a token that is not registered is Missing; a download or a collect
\* that arrives with it is answered 400, and registers, changes and removes
\* no session.
C5_MissingRejects ==
    /\ [](\A u \in ReqTokens \ DOMAIN sessions :
             getSessionState(sessions, u) = sessionMissing)
    /\ [][\A u \in ReqTokens \ DOMAIN sessions :
             (DownloadArrives(u) \/ collect(u))
                 => /\ last'.status = 400
                    /\ last'.token = u
                    /\ sessions' = sessions
                    /\ inflight' = inflight]_vars

\* C5 witness: a download was answered 400 for a token whose session the
\* reaper deleted, after a collect was answered 200 for another token.
C5_Witness ==
    /\ last.op = "download"
    /\ last.status = 400
    /\ fate[last.token].reaped
    /\ \E u \in ReqTokens : fate[u].ok = 1

\* C6: the iteration of a session that stays registered never decreases,
\* and the only step that changes it is the updateSession of a download on
\* that session, which adds one to it.
C6_IterationMonotone ==
    [][\A u \in (DOMAIN sessions) \cap (DOMAIN sessions') :
          /\ sessions'[u].iteration >= sessions[u].iteration
          /\ sessions'[u].iteration # sessions[u].iteration
             => /\ sessions'[u].iteration = sessions[u].iteration + 1
                /\ \E r \in Running : r.token = u /\ downloadUpdate(r)]_vars

\* C6 witness: a download has recorded the second iteration of a session
\* while another session was registered.
C6_Witness ==
    /\ last.op = "download"
    /\ last.status = 200
    /\ last.token \in DOMAIN sessions
    /\ sessions[last.token].iteration = 2
    /\ CountSessions(sessions) = 2

\* The i-th server result of a session carries iteration i, counting from 0.
Numbered(results) == \A i \in 1..Len(results) : results[i].Iteration = i - 1

\* C7: every session, registered or held by a collect, has as many server
\* results as its iteration says, the i-th (from 0) carrying iteration i;
\* so do the server results in the response of a collect.
C7_ResultsNumbered ==
    /\ \A u \in DOMAIN sessions :
          /\ Len(sessions[u].serverSchema.Server) = sessions[u].iteration
          /\ Numbered(sessions[u].serverSchema.Server)
    /\ \A r \in Running :
          r.pc = "collectBody"
              => /\ Len(r.session.serverSchema.Server) = r.session.iteration
                 /\ Numbered(r.session.serverSchema.Server)
    /\ (last.op = "collect" /\ last.status = 200) => Numbered(last.body)

\* C7 witness: negotiate, one download, collect: a collect has answered 200
\* with one server result, of iteration 0.
C7_Witness ==
    /\ last.op = "collect"
    /\ last.status = 200
    /\ Len(last.body) = 1
    /\ last.body[1].Iteration = 0

ReaperWithinHorizon ==
    /\ rpc \in {"loop", "sleep"}
    /\ rpc = "sleep" => wakeAt <= MaxTime

\* C8: a sweep deletes no session that is at most toomuch (60 s) old and
\* every session that is at least toomuch + reapInterval (74 s) old; hence
\* when no further session is created, every registered session is that old
\* when the pending sleep of the reaper ends, and time passes, the number of
\* sessions reaches 0.
C8_ReaperTiming ==
    /\ [][reaperSweep
             => \A u \in DOMAIN sessions :
                   /\ now <= sessions[u].stamp + toomuch
                      => u \in DOMAIN sessions' /\ sessions'[u] = sessions[u]
                   /\ now >= sessions[u].stamp + toomuch + reapInterval
                      => u \notin DOMAIN sessions']_vars
    /\ (/\ rpc = "sleep"
        /\ wakeAt <= MaxTime
        /\ nextUUID > NumTokens
        /\ \A u \in DOMAIN sessions : wakeAt >= sessions[u].stamp + toomuch + reapInterval)
          ~> (CountSessions(sessions) = 0)

\* C8 witness: a sweep has deleted a session and has kept another one that
\* is exactly toomuch old.
C8_Witness ==
    /\ last.op = "reapStaleSessions"
    /\ \E u \in Tokens : fate[u].reaped
    /\ \E v \in DOMAIN sessions : now = sessions[v].stamp + toomuch

\* C10: once the context is cancelled, a running reaper leaves its loop and
\* closes h.stop, and a JoinReaper that is waiting returns.
C10_ReaperStops ==
    /\ (ctxDone /\ ReaperWithinHorizon) ~> (rpc = "done" /\ stopClosed)
    /\ (ctxDone /\ (ReaperWithinHorizon \/ rpc = "done") /\ jpc = "waiting")
          ~> (jpc = "returned")

\* C10 witness: JoinReaper has returned from a reaper that was cancelled
\* in its sleep and made its last sweep.
C10_Witness ==
    /\ jpc = "returned"
    /\ ctxDone
    /\ rpc = "done"
    /\ now >= wakeAt
    /\ wakeAt > 0

\* C11: after JoinReaper has returned the reaper makes no step, so it sweeps
\* no more and no session is deleted; h.stop is closed by one step only, the
\* exit of the reaper loop, which happens once and after the last sweep.
C11_QuietAfterJoin ==
    /\ [](jpc = "returned" => rpc = "done" /\ stopClosed)
    /\ [](stopClosed => rpc = "done")
    /\ [][rpc = "done"
             => /\ rpc' = "done"
                /\ stopClosed' = stopClosed
                /\ ~reaperSweep
                /\ \A u \in DOMAIN sessions : u \in DOMAIN sessions']_vars
    /\ [][stopClosed' # stopClosed
             => ~stopClosed /\ rpc = "loop" /\ rpc' = "done" /\ sessions' = sessions]_vars

\* C11 witness: JoinReaper has returned after a sweep that deleted a session,
\* and a session that has become stale since is still registered.
C11_Witness ==
    /\ jpc = "returned"
    /\ \E u \in Tokens : fate[u].reaped
    /\ \E v \in DOMAIN sessions : now - sessions[v].stamp > toomuch

(***************************************************************************)
(* Properties of the operations of the table, statement by statement       *)
(* (LockSpec).                                                             *)
(***************************************************************************)
\* The goroutines that are about to read or write the table.
InTable == {g \in Goroutines : calls[g].pc \in TableAccess}

\* C12: whatever the handler goroutines and the reaper do, at most one
\* goroutine is at a statement that reads or writes the session table, and
\* a goroutine that is at such a statement holds h.mtx.
C12_TableUnderMutex ==
    /\ Cardinality(InTable) <= 1
    /\ \A g \in InTable : mtx = g

\* C12 witness: the reaper is deleting stale sessions while one handler waits
\* to lock the mutex in updateSession and another one in popSession.
C12_Witness ==
    /\ At(ReaperGoroutine, "reapStaleSessions.delete")
    /\ calls[ReaperGoroutine].ret # {}
    /\ \E g \in Goroutines : At(g, "updateSession.Lock")
    /\ \E g \in Goroutines : At(g, "popSession.Lock")

\* The sessions (named by their UUIDs, which are never reused) that the
\* statement at which goroutine g is reads or writes.
Touches(g) ==
    CASE calls[g].pc \in {"updateSession.append", "collect.fill", "collect.save"}
              -> {calls[g].UUID}
      [] calls[g].pc = "getSessionState.load" -> {calls[g].UUID} \cap DOMAIN sessions
      [] calls[g].pc = "reapStaleSessions.range" -> DOMAIN sessions
      [] OTHER -> {}

\* Goroutine g runs the collect handler that got session u from popSession.
Popped(g, u) ==
    /\ calls[g].UUID = u
    /\ \/ calls[g].pc \in {"collect.fill", "collect.save"}
       \/ calls[g].pc = "popSession.Unlock" /\ calls[g].ret # nil

\* C13: a goroutine touches a session only while the session is in the
\* table and the goroutine holds h.mtx, or when it is the collect handler
\* that popped the session; a popped session is not in the table and was
\* popped by one handler only, so nobody else can reach it.
C13_NoUseAfterDelete ==
    /\ \A g \in Goroutines : \A u \in Touches(g) :
          \/ u \in DOMAIN sessions /\ mtx = g
          \/ u \notin DOMAIN sessions /\ Popped(g, u)
    /\ \A u \in Tokens : \A g, h \in Goroutines :
          Popped(g, u) => u \notin DOMAIN sessions /\ (Popped(h, u) => h = g)

\* C13 witness: a collect handler saves the session that it popped while the
\* updateSession of a download that found the session active a moment ago
\* finds it gone.
C13_Witness ==
    \E g, h \in Goroutines :
        /\ At(g, "collect.save")
        /\ Len(calls[g].ret.serverSchema.Server) > 0
        /\ At(h, "updateSession.Unlock")
        /\ calls[h].UUID = calls[g].UUID
        /\ mtx = h

(***************************************************************************)
(* Properties of the handlers' answers (Spec).                             *)
(***************************************************************************)
\* The length that the claim gives to the payload for a requested count c.
ClampedLength(c) ==
    IF c < MinSize THEN MinSize ELSE IF c > MaxSize THEN MaxSize ELSE c

\* C14: a download that gets as far as genbody with the requested count c
\* goes on with a payload and a count of minSize if c < minSize, maxSize if
\* c > maxSize and c otherwise, and the 200 response that it writes
\* announces that length as its Content-Length.
C14_GenbodyClamps ==
    /\ [][last'.op = "download" /\ last'.status = 0
             => \A suffix \in PathSuffixes :
                   download(last'.token, suffix, TRUE)
                      => inflight' = Started(Handler("downloadUpdate", last'.token, nil,
                                                     ClampedLength(Atoi(siz(suffix)).n), ""))]_vars
    /\ [][last'.op = "download" /\ last'.status = 200
             => /\ last'.body >= MinSize
                /\ last'.body <= MaxSize
                /\ \E r \in Running : downloadUpdate(r) /\ last'.body = r.count]_vars

\* C14 witness: a download has answered with the maximum size while another
\* one is about to answer with the minimum size.
C14_Witness ==
    /\ last.op = "download"
    /\ last.status = 200
    /\ last.body = MaxSize
    /\ \E r \in Running : r.pc = "downloadUpdate" /\ r.count = MinSize

\* The path suffix of a download that asks for 1125899906842624 bytes.
HugeSuffix ==
    <<"/", "1", "1", "2", "5", "8", "9", "9", "9", "0", "6", "8", "4", "2", "6", "2", "4">>

\* C15: a download on an active session that gets as far as genbody goes on
\* with 25000 bytes if its path suffix is -1 or empty, and with 7500000
\* bytes if its path suffix is 1125899906842624.
C15_SizesAsClaimed ==
    [][last'.op = "download" /\ last'.status = 0
          => \A suffix \in PathSuffixes :
                download(last'.token, suffix, TRUE)
                   => /\ suffix \in {<<>>, <<"/", "-", "1">>}
                         => inflight' = Started(Handler("downloadUpdate", last'.token, nil,
                                                        25000, ""))
                      /\ suffix = HugeSuffix
                         => inflight' = Started(Handler("downloadUpdate", last'.token, nil,
                                                        7500000, ""))]_vars

\* C16: a negotiate that is given an address with a port and whose
\* dependencies do not fail goes on to write its response, however many
\* sessions are registered; a response that it writes carries a token that
\* is not empty, queue_pos = 0, unchoked = 1 and the host of the caller's
\* address; and the session that the handler then registers for that token
\* is active and has no iteration.
C16_NegotiateAnswers ==
    /\ [][last'.op = "negotiate" /\ nextUUID' # nextUUID /\ last'.status = 0
             => \A addr \in RemoteAddrs :
                   negotiate(addr, "none")
                      => inflight' = Started(Handler("negotiateWrite", nextUUID, nil, 0,
                                                     addr[1]))]_vars
    /\ [][last'.op = "negotiate" /\ last'.status = 500
             => ~ \E addr \in RemoteAddrs :
                     Len(addr) = 2 /\ negotiate(addr, "none")]_vars
    /\ [][last'.op = "negotiate" /\ last'.status = 200
             => \E r \in Running :
                   /\ negotiateWrite(r, TRUE)
                   /\ last'.body.Authorization = r.token
                   /\ r.token \in Tokens
                   /\ last'.body.QueuePos = 0
                   /\ last'.body.Unchoked = 1
                   /\ last'.body.RealAddress = r.address]_vars
    /\ [][last'.op = "createSession"
             => \E r \in Running :
                   /\ negotiateCreate(r)
                   /\ r.token \notin DOMAIN sessions
                   /\ r.token \in DOMAIN sessions'
                   /\ sessions'[r.token].iteration = 0
                   /\ sessions'[r.token].serverSchema.Server = <<>>
                   /\ getSessionState(sessions', r.token) = sessionActive]_vars

\* C16 witness: negotiate has answered 200 to the second caller while the
\* session of the first one is registered.
C16_Witness ==
    /\ last.op = "negotiate"
    /\ last.status = 200
    /\ last.body.RealAddress = "10.0.0.1"
    /\ last.body.Authorization = NumTokens
    /\ CountSessions(sessions) = NumTokens - 1

\* C17 as claimed: whatever the request and whichever call fails, negotiate
\* answers 500 only if net.SplitHostPort fails or JSONMarshal fails.
C17_OnlyAddressOrMarshal ==
    [][last'.op = "negotiate" /\ last'.status = 500
          => \A addr \in RemoteAddrs, fail \in NegotiateFailures :
                negotiate(addr, fail)
                   => SplitHostPort(addr).err \/ fail = "JSONMarshal"]_vars

\* C17, amended: negotiate answers 500 only if net.SplitHostPort fails,
\* UUIDNewRandom fails or JSONMarshal fails; it answers nothing but 200 and
\* 500, and it answers 500 before it has written or registered anything.
C17_OnlyDependencyFailures ==
    /\ [][last'.op = "negotiate" /\ last'.status = 500
             => /\ \A addr \in RemoteAddrs, fail \in NegotiateFailures :
                      negotiate(addr, fail)
                         => SplitHostPort(addr).err
                            \/ fail \in {"UUIDNewRandom", "JSONMarshal"}
                /\ \E addr \in RemoteAddrs, fail \in NegotiateFailures :
                      negotiate(addr, fail)
                /\ sessions' = sessions]_vars
    /\ [](last.op = "negotiate" => last.status \in {0, 200, 500})

\* C17 witness: negotiate has answered 500 while a session is registered and
\* a UUID is left to hand out.
C17_Witness ==
    /\ last.op = "negotiate"
    /\ last.status = 500
    /\ CountSessions(sessions) > 0
    /\ nextUUID <= NumTokens

\* The status that the claim gives to a collect that has got its session,
\* from the request body and the call that fails, if any.
CollectStatus(body, fail) ==
    IF fail = "ReadAll" \/ ~body.json THEN 400
    ELSE IF fail \in {"JSONMarshal", "savedata"} THEN 500
    ELSE 200

\* C18: collect answers 400 at once exactly if no session is registered for
\* its token; with a session, it answers 400 if the body cannot be read or
\* is no JSON, else 500 if serializing or saving fails, else 200 with the
\* server results of the session, whatever the state of the session and the
\* number of its iterations.
C18_CollectStatuses ==
    /\ [][last'.op = "collect" /\ inflight' = inflight
             => /\ last'.status = 400
                /\ getSessionState(sessions, last'.token) = sessionMissing
                /\ collect(last'.token)]_vars
    /\ [][last'.op = "popSession"
             => /\ getSessionState(sessions, last'.token) # sessionMissing
                /\ collect(last'.token)]_vars
    /\ [][last'.op = "collect" /\ inflight' # inflight
             => \A r \in Running, body \in Bodies, fail \in CollectFailures :
                   collectBody(r, body, fail)
                      => /\ last'.status = CollectStatus(body, fail)
                         /\ last'.status = 200
                            => last'.body = r.session.serverSchema.Server]_vars
    /\ [](last.op = "collect" => last.status \in {200, 400, 500})

\* C18 witness: collect has answered 200 for a session without iterations
\* while another collect has got an expired session and is about to answer.
C18_Witness ==
    /\ last.op = "collect"
    /\ last.status = 200
    /\ last.body = <<>>
    /\ \E r \in Running :
          /\ r.pc = "collectBody"
          /\ r.session.iteration >= MaxIterations

(***************************************************************************)
(* Properties of the client loop (ClientSpec).                             *)
(***************************************************************************)
\* The positions of the requests for op in the sequence of requests sent.
Positions(op) == {i \in 1..Len(requests) : requests[i].op = op}

\* The run has failed: the phase that ran last returned an error.
Failed == err # "nil"

\* The requests are negotiate, then downloads 0, 1, 2, ..., then collect.
InOrder ==
    /\ requests # <<>> => Positions("negotiate") = {1}
    /\ \A i \in Positions("download") : requests[i].iteration = i - 2
    /\ \A i \in Positions("collect") :
         /\ i = numIterations + 2
         /\ i = Len(requests)
         /\ Len(clientResults) = numIterations
    /\ Len(requests) - 1 <= Len(clientResults) + 1

\* C19: in one run the client loop sends negotiate exactly once and first,
\* then the downloads of iterations 0, 1, 2, ... one after the other, then
\* collect at most once, and collect only after numIterations downloads have
\* succeeded; once a phase has failed the loop sends no further request.
C19_RequestOrder ==
    /\ []InOrder
    /\ [][Failed => requests' = requests]_vars
    /\ [][Len(requests') <= Len(requests) + 1]_vars

C19_Witness ==
    /\ cpc = "done"
    /\ Failed
    /\ Len(requests) = numIterations + 2
    /\ requests[Len(requests)].op = "collect"

\* The number of downloads that have succeeded: every download sent, but
\* the last one if it is the phase that failed.
Succeeded ==
    Cardinality(Positions("download"))
      - (IF Failed /\ requests # <<>> /\ requests[Len(requests)].op = "download"
         THEN 1 ELSE 0)

\* C20: the loop emits one result for each download that has succeeded (the
\* last one is on its way while the loop is at the send): when the loop has
\* returned, none if negotiate failed, k if the download of iteration k
\* failed, numIterations if all downloads succeeded, whatever collect
\* returned; and the j-th result emitted carries iteration j, from 0.
C20_EmittedEqualsSucceeded ==
    /\ \A j \in 1..Len(ch) : ch[j].Iteration = j - 1 /\ ch[j] = clientResults[j]
    /\ Len(ch) = IF cpc = "send" THEN Succeeded - 1 ELSE Succeeded
    /\ cpc = "done" =>
         /\ Len(ch) = Succeeded
         /\ (Failed /\ Len(requests) = 1) => Len(ch) = 0
         /\ \A k \in 0..(numIterations - 1) :
              (Failed /\ requests[Len(requests)] = Request("download", k, requests[Len(requests)].nbytes))
                => Len(ch) = k
         /\ Positions("collect") # {} => Len(ch) = numIterations

C20_Witness ==
    /\ cpc = "done"
    /\ Failed
    /\ requests[Len(requests)].op = "download"
    /\ requests[Len(requests)].iteration = 1
    /\ Len(ch) = 1

(***************************************************************************)
(* Properties of the client, its context and its consumer (ClientSpec).    *)
(***************************************************************************)
\* The loop was started, and it has returned.
LoopReturned == cpc = "done"

\* C21: the channel of results is closed exactly once for each loop that
\* was started, whatever ends the loop (a failure of negotiate, of a
\* download, of collect, or success), and never for a loop that was not
\* started; no result is sent after the close; and when the channel is closed
\* the consumer has received every result that the loop has emitted.
C21_ClosedOnce ==
    /\ [](chClosed <= 1)
    /\ [](LoopReturned <=> chClosed = 1)
    /\ [](cpc \in {"new", "refused"} => chClosed = 0)
    /\ [][chClosed > 0 => ch' = ch]_vars
    /\ [](chClosed > 0 => ch = clientResults)

C21_Witness ==
    /\ chClosed = 1
    /\ Len(ch) = numIterations
    /\ requests[Len(requests)].op = "collect"
    /\ err = "errHTTPRequestFailed"
    /\ consumer = "drained"

\* The error of the first phase that failed, "nil" if none has failed.
RECURSIVE FirstError(_)
FirstError(es) ==
    IF es = <<>> THEN "nil"
    ELSE IF Head(es) # "nil" THEN Head(es)
    ELSE FirstError(Tail(es))

\* negotiate, numIterations downloads and collect have run and succeeded.
AllSucceeded ==
    /\ Len(outcomes) = numIterations + 2
    /\ \A i \in 1..Len(outcomes) : outcomes[i] = "nil"

\* C22: the loop writes c.err before it closes the channel only; so every
\* call of Error() that the consumer makes after it has seen the close
\* returns the same value, which is nil if and only if negotiate, all the
\* downloads and collect have succeeded, and else the error of the first
\* phase that failed.
C22_ErrorSettledAtClose ==
    /\ [][chClosed > 0 => err' = err]_vars
    /\ [](\A i \in 1..Len(observed) :
            /\ chClosed = 1
            /\ observed[i] = FirstError(outcomes)
            /\ observed[i] = "nil" <=> AllSucceeded
            /\ observed[i] = observed[1])

C22_Witness ==
    /\ Len(observed) = 2
    /\ observed[2] = "errHTTPRequestFailed"
    /\ Len(outcomes) = numIterations + 2
    /\ consumer = "returned"

\* C23: a call of StartDownload in which the discovery of the server fails,
\* or which finds the context cancelled already, returns a nil channel and
\* an error (the error of the context, when the discovery has not failed),
\* and does not start the loop: no request is ever sent and the client
\* stays as it is.
C23_StartDownloadFailsFast ==
    /\ [][\A fqdn \in BOOLEAN, locateErr \in LocateErrors :
            StartDownload(fqdn, locateErr) =>
              LET discoveryFails == ~fqdn /\ locateErr # "nil"
              IN  /\ (discoveryFails \/ ctx # "nil") =>
                       /\ ~startRet'.ch
                       /\ startRet'.err # "nil"
                       /\ cpc' = "refused"
                  /\ (~discoveryFails /\ ctx # "nil") => startRet'.err = ctx]_vars
    /\ [][cpc = "refused" => cpc' = "refused"]_vars
    /\ [](cpc = "refused" => requests = <<>> /\ chClosed = 0 /\ ch = <<>>)

C23_Witness ==
    /\ startRet.returned
    /\ ~startRet.ch
    /\ startRet.err = "context deadline exceeded"
    /\ consumer = "returned"
    /\ requests = <<>>

\* The response to negotiate has status 200 and a body that parses, with an
\* empty Authorization or with Unchoked equal to 0.
Busy(reply) ==
    /\ reply.err = "nil"
    /\ reply.StatusCode = 200
    /\ reply.json
    /\ (reply.Authorization = "" \/ reply.Unchoked = 0)

\* C24: when the response to negotiate has status 200 and carries an empty
\* authorization or an unchoked flag equal to 0, negotiate fails with
\* ErrServerBusy (an error of its own, not the one of a failed request), the
\* run ends with that error, and neither a download nor a collect is sent.
C24_ServerBusy ==
    /\ [][\A reply \in NegotiateReplies :
            (Busy(reply) /\ loopNegotiate(reply)) =>
               /\ err' = "ErrServerBusy"
               /\ err' # "errHTTPRequestFailed"
               /\ cpc' = "closing"]_vars
    /\ []((outcomes # <<>> /\ outcomes[1] = "ErrServerBusy") =>
            /\ requests = <<Request("negotiate", 0, 0)>>
            /\ err = "ErrServerBusy"
            /\ \A i \in 1..Len(observed) : observed[i] = "ErrServerBusy")

C24_Witness ==
    /\ cpc = "done"
    /\ outcomes = <<"ErrServerBusy">>
    /\ observed = <<"ErrServerBusy", "ErrServerBusy">>
    /\ Len(requests) = 1

\* The bytes that the loop asks for after the result c: the rate of c in
\* whole kbit/s, floor((N/E)*8/1000), and then the bytes of the target time
\* at that rate, floor(rate * 1000 * targetElapsedSeconds / 8); with E in
\* milliseconds here.
BytesFromTruncatedRate(c) ==
    (((c.Received * 8) \div c.Elapsed) * 1000 * c.ElapsedTarget) \div 8

\* The downloads sent after the first one; the download at position i of the
\* requests is the one of iteration i - 2, and follows the result
\* clientResults[i - 2] of iteration i - 3.
LaterDownloads == {i \in Positions("download") : i > 2}

\* C25 (as stated): the first download asks for 750000 bytes, and after a
\* download that received N bytes in E seconds the next one asks for
\* floor(((N/E)*8/1000) * 1000 * targetElapsedSeconds / 8) bytes, which is
\* floor(N * targetElapsedSeconds / E), with E in milliseconds here.
C25_BytesFromThroughput ==
    /\ 2 \in Positions("download") => requests[2].nbytes = 750000
    /\ \A i \in LaterDownloads :
         LET c == clientResults[i - 2]
         IN  requests[i].nbytes = (c.Received * c.ElapsedTarget * 1000) \div c.Elapsed

\* C25 (amended): the first download asks for 750000 bytes, and after a
\* download that received N bytes in E seconds the next one asks for
\* floor(R * 1000 * targetElapsedSeconds / 8) bytes, where R is
\* floor((N/E)*8/1000), the rate in whole kbit/s.
C25_BytesFromTruncatedRate ==
    /\ 2 \in Positions("download") => requests[2].nbytes = 750000
    /\ \A i \in LaterDownloads :
         requests[i].nbytes = BytesFromTruncatedRate(clientResults[i - 2])

C25_Witness ==
    /\ Len(requests) >= 3
    /\ requests[2] = Request("download", 0, 750000)
    /\ clientResults[1].Received = 25100
    /\ clientResults[1].Elapsed = 1000
    /\ requests[3] = Request("download", 1, 50000)
    /\ (clientResults[1].Received * clientResults[1].ElapsedTarget * 1000)
          \div clientResults[1].Elapsed = 50200

LoopRunning == cpc \in {"negotiate", "download", "send", "collect"}

C28_SubmittedAsEmitted ==
    /\ [](Positions("collect") # {} => submitted = ch)
    /\ [][Positions("collect") # {} => ch' = ch /\ submitted' = submitted]_vars

C28_Witness ==
    /\ Positions("collect") # {}
    /\ Len(submitted) = numIterations
    /\ submitted[2].Received = 25100
    /\ ch[2].Received = 25100
    /\ cpc = "done"

(***************************************************************************)
(* Properties of the download handler (Spec).                              *)
(***************************************************************************)
\* Whether strconv.Atoi rejects the size of each path suffix.
SuffixErr == [suffix \in PathSuffixes |-> Atoi(siz(suffix)).err]

\* The status of a download, from the state of its session, its size suffix
\* and the outcome of the random source; 200 is written after updateSession.
DownloadStatus(state, suffix, randOK) ==
    IF state = sessionMissing THEN 400
    ELSE IF state = sessionExpired THEN 429
    ELSE IF SuffixErr[suffix] THEN 400
    ELSE IF ~randOK THEN 500
    ELSE 200

\* C29: a download is answered 400 if its session is Missing; else 429 if
\* it is Expired; else 400 if its size suffix is not an integer; else 500 if
\* the random source fails; else 200.  So a malformed size gives 429 on an
\* Expired session and 400 on a Missing one.  (A step is a download with
\* some suffix and random source only if it answers, or goes on, as this
\* order says for them.)
C29_DownloadStatusOrder ==
    /\ [][last'.op = "download" /\ last'.status # 200
             => LET state == getSessionState(sessions, last'.token)
                IN  \A suffix \in PathSuffixes, randOK \in BOOLEAN :
                       \/ LET status == DownloadStatus(state, suffix, randOK)
                          IN  IF status = 200
                              THEN last'.status = 0 /\ inflight' # inflight
                              ELSE last'.status = status /\ inflight' = inflight
                       \/ ~download(last'.token, suffix, randOK)]_vars
    /\ [][last'.op = "download" /\ last'.status = 200
             => \E r \in Running : r.pc = "downloadUpdate" /\ downloadUpdate(r)]_vars
    /\ [][\A r \in Running :
             \/ last'.op = "download" /\ last'.status = 200
             \/ ~downloadUpdate(r)]_vars

\* C29 witness: a download for an Expired session has been answered 429
\* while a download for another session is about to answer 200.
C29_Witness ==
    /\ last.op = "download"
    /\ last.status = 429
    /\ getSessionState(sessions, last.token) = sessionExpired
    /\ \E r \in Running : r.pc = "downloadUpdate" /\ r.token # last.token

\* C30: a download that is answered 400, 429 or 500 leaves the table of
\* sessions as it is: it records no measurement, increments the iteration of
\* no session, removes no session, and has no update left to do.
C30_RejectedDownloadNoEffect ==
    [][last'.op = "download" /\ last'.status \in {400, 429, 500}
          => \/ /\ sessions' = sessions
                /\ recorded' = recorded
                /\ inflight' = inflight
             \/ \A suffix \in PathSuffixes, randOK \in BOOLEAN :
                   ~download(last'.token, suffix, randOK)]_vars

\* C30 witness: a download was answered 500 for a session on which one
\* download recorded before, and the session still has that one measurement.
C30_Witness ==
    /\ last.op = "download"
    /\ last.status = 500
    /\ last.token \in DOMAIN sessions
    /\ sessions[last.token].iteration = 1
    /\ Len(sessions[last.token].serverSchema.Server) = 1

(***************************************************************************)
(* The sessions are isolated from each other.                              *)
(***************************************************************************)
\* The session registered under u is the same before and after the step:
\* registered or not as before, with the same iteration, measurements and
\* stamp.
Untouched(u) ==
    /\ (u \in DOMAIN sessions) = (u \in DOMAIN sessions')
    /\ u \in DOMAIN sessions => sessions'[u] = sessions[u]

\* C31: a step of a download or of a collect that carries the token t (its
\* first critical section, the recording of the iteration, the pop of the
\* session, the rest of collect) leaves every session that is registered
\* under another token as it was: its iteration, its measurements, its stamp
\* and its presence in the table.
C31_SessionsIsolated ==
    [][last'.op \in {"download", "collect", "popSession"}
          => \A u \in Tokens \ {last'.token} : Untouched(u)]_vars

\* A download has recorded its iteration while a session on which a
\* measurement was recorded is registered under another token.
C31_Witness ==
    /\ last.op = "download"
    /\ last.status = 200
    /\ last.token \in DOMAIN sessions
    /\ \E u \in DOMAIN sessions :
          u # last.token /\ sessions[u].iteration = 1
                         /\ Len(sessions[u].serverSchema.Server) = 1

(***************************************************************************)
(* What a download that answers 200 has recorded.                          *)
(***************************************************************************)
\* C32: a download that answers 200 has, in the step that records its
\* iteration, appended exactly one measurement to a session that is
\* registered under its token, and incremented the iteration of that session
\* by one; it does not answer 200 when the session was popped or reaped
\* after its state was checked.
C32_OkDownloadRecorded ==
    [][last'.op = "download" /\ last'.status = 200
          => LET UUID == last'.token
             IN  /\ UUID \in DOMAIN sessions
                 /\ UUID \in DOMAIN sessions'
                 /\ sessions'[UUID].iteration = sessions[UUID].iteration + 1
                 /\ Len(sessions'[UUID].serverSchema.Server)
                       = Len(sessions[UUID].serverSchema.Server) + 1]_vars

(***************************************************************************)
(* The iteration cap under concurrent downloads of one session.            *)
(***************************************************************************)
\* C33: in every reachable state the iteration of every registered session
\* is at most the cap (h.MaxIterations), also when several download requests
\* that carry the same token are served concurrently.
C33_IterationCapped ==
    \A u \in DOMAIN sessions : sessions[u].iteration <= MaxIterations

(***************************************************************************)
(* A collect that fails after it has popped the session.                   *)
(***************************************************************************)
\* The session of u was popped by a collect that has returned without
\* persisting it and without sending its measurements.
CollectFailed(u) ==
    /\ fate[u].popped = 1
    /\ fate[u].ok = 0
    /\ fate[u].saved = 0
    /\ u \notin DOMAIN sessions
    /\ \A r \in Running : ~(r.pc = "collectBody" /\ r.token = u)

\* C34: collect pops the session before it reads the body.  When a collect
\* that has popped the session of a token answers 400 (body unreadable or
\* not JSON) or 500 (JSONMarshal or savedata fails), the session is not in
\* the table and was neither persisted nor sent; from then on this stays so,
\* and every further collect with the token is answered 400 and changes
\* nothing.
C34_FailedCollectLosesSession ==
    /\ [][last'.op = "collect" /\ last'.status \in {400, 500} /\ inflight' # inflight
             => /\ \A u \in Tokens : last'.token = u => CollectFailed(u)'
                /\ fate' = fate
                /\ sessions' = sessions]_vars
    /\ [][\A u \in Tokens :
             CollectFailed(u)
                => /\ CollectFailed(u)'
                   /\ last'.token = u /\ last'.op \in {"collect", "popSession"}
                         => /\ last'.op = "collect"
                            /\ last'.status = 400
                            /\ sessions' = sessions
                            /\ inflight' = inflight]_vars

\* The collect of a session has failed with 500 after the pop, while the
\* session of another token is registered.
C34_Witness ==
    /\ last.op = "collect"
    /\ last.status = 500
    /\ CollectFailed(last.token)
    /\ \E u \in DOMAIN sessions : u # last.token

(***************************************************************************)
(* The reaper deletes by age since creation.                               *)
(***************************************************************************)
\* The step is the arrival of a request (the first critical section of its
\* handler), not the completion of a handler that was in flight.
Arrives == BagCardinality(inflight') >= BagCardinality(inflight)

\* C35: the stamp of a session is the time of its creation and no step
\* changes it while the session is registered; a sweep deletes exactly the
\* sessions whose stamp is more than 60 s old, whatever was recorded on them
\* and whenever; and the download and collect requests that arrive for a
\* token whose session was reaped are answered 400.
C35_ReapedByAge ==
    /\ [][\A u \in DOMAIN sessions' :
             sessions'[u].stamp = IF u \in DOMAIN sessions THEN sessions[u].stamp
                                  ELSE now]_vars
    /\ [][last'.op = "reapStaleSessions"
             => \A u \in DOMAIN sessions :
                   (u \notin DOMAIN sessions') = (now - sessions[u].stamp > toomuch)]_vars
    /\ [][\A u \in Tokens :
             /\ fate[u].reaped
             /\ last'.token = u
             /\ last'.op \in {"download", "collect", "popSession"}
             /\ Arrives
             => /\ last'.op \in {"download", "collect"}
                /\ last'.status = 400
                /\ sessions' = sessions
                /\ inflight' = inflight]_vars

\* A sweep has just deleted a session that was more than 60 s old and on
\* which a download was recorded less than 60 s before the sweep.
C35_Witness ==
    /\ last.op = "reapStaleSessions"
    /\ \E u \in DOMAIN last.body :
          LET Server == last.body[u].serverSchema.Server
          IN  /\ u \notin DOMAIN sessions
              /\ fate[u].reaped
              /\ now - last.body[u].stamp > toomuch
              /\ Len(Server) >= 1
              /\ now - Server[Len(Server)].Timestamp < toomuch

(***************************************************************************)
(* The negotiate response and the registration of its session.             *)
(***************************************************************************)
\* C36: when the negotiate response that carries the token t is written, a
\* session is registered under t already; a download or a collect with t
\* that arrives after the response was written, the session being neither
\* collected nor reaped, is not answered as for a Missing session.
C36_RegisteredWhenAnswered ==
    /\ [][last'.op = "negotiate" /\ last'.status = 200
             => last'.token \in DOMAIN sessions']_vars
    /\ [][\A r \in Running :
             /\ r.pc = "negotiateCreate"
             /\ last'.token = r.token
             /\ last'.op \in {"download", "collect", "popSession"}
             => last'.status # 400]_vars

(***************************************************************************)
(* When the reaper observes the cancellation.                              *)
(***************************************************************************)
\* C37: the reaper tests the context only at the top of its loop, between
\* two sweeps.  Once asleep it leaves the sleep only by sweeping, cancelled
\* or not; at the top of the loop it exits, closing h.stop without touching
\* the table, iff the context is cancelled.  Hence once a sweep has run after
\* the cancellation the reaper never sleeps or sweeps again, and when the
\* context was cancelled before StartReaper it never sleeps or sweeps at all.
C37_CancelBetweenSweeps ==
    /\ [][rpc = "sleep" /\ rpc' # rpc
             => last'.op = "reapStaleSessions" /\ rpc' = "loop"]_vars
    /\ [][rpc = "loop" /\ rpc' # rpc
             => IF ctxDone
                THEN rpc' = "done" /\ stopClosed' /\ sessions' = sessions
                ELSE rpc' = "sleep" /\ ~stopClosed']_vars
    /\ [](last.op = "reapStaleSessions" /\ ctxDone => [](rpc # "sleep"))
    /\ [](rpc = "notstarted" /\ ctxDone => [](rpc # "sleep"))

\* The context was cancelled while the reaper slept; the sweep after the
\* sleep has run all the same, and has deleted a session.
C37_Witness ==
    /\ last.op = "reapStaleSessions"
    /\ ctxDone
    /\ DOMAIN last.body # {}
    /\ rpc = "loop"
    /\ ~stopClosed

(***************************************************************************)
(* A negotiate that fails.                                                 *)
(***************************************************************************)
\* C38: a negotiate that answers 500 (the remote address cannot be split,
\* UUIDNewRandom or JSONMarshal fails) registers no session: the table is
\* the same after it as before it, with the same number of sessions, and
\* the handler has returned, so that it registers none later either.
C38_FailedNegotiateRegistersNothing ==
    [][last'.op = "negotiate" /\ last'.status = 500
          => /\ sessions' = sessions
             /\ CountSessions(sessions') = CountSessions(sessions)
             /\ inflight' = inflight]_vars

\* A negotiate has answered 500 while one session is registered; of the two
\* UUIDs drawn so far only that one is registered.
C38_Witness ==
    /\ last.op = "negotiate"
    /\ last.status = 500
    /\ CountSessions(sessions) = 1
    /\ nextUUID = 3
    /\ 2 \notin DOMAIN sessions
    /\ inflight = EmptyBag

=============================================================================
